---- MODULE Spec2Model ----
(***************************************************************************)
(* The dynamic filter-query compiler of backend/crud.py:                   *)
(*   build_single_condition, build_query_conditions,                       *)
(*   check_needs_author_join, check_needs_tag_join, search_papers_complex. *)
(* The duplicate search and the merge of backend/crud.py:                  *)
(*   normalize_text, search_related_papers, update_paper, merge_paper.     *)
(*                                                                         *)
(* Text is a sequence of characters, each a one-character string or, for   *)
(* a character outside ASCII, the name of its code point, so that strip,   *)
(* str(), int(), normalize_text and the store's ILIKE are computed and not *)
(* assumed.  Values of                                                     *)
(* the Union[str, int, List[str]] of schemas.FilterCondition and values of *)
(* table columns carry a type tag.                                         *)
(***************************************************************************)
EXTENDS Integers, Sequences, FiniteSets, TLC

VARIABLES
    pc,            \* position of the call under study: "call" before, "done" after
    condition,     \* build_single_condition: the FilterCondition
    db_condition,  \* build_single_condition: what it returned
    group,         \* build_query_conditions: the FilterGroup
    conditions,    \* build_query_conditions: what it returned
    db,            \* the tables: papers, authors, tags, paper_authors, paper_tags
    query_data,    \* search_papers_complex: the ComplexSearchQuery
    skip,          \* search_papers_complex: offset
    limit,         \* search_papers_complex: limit
    result,        \* search_papers_complex, search_related_papers: the list of paper ids returned
    needs_author,  \* check_needs_author_join: what it returned
    needs_tag,     \* check_needs_tag_join: what it returned
    raw_title,          \* normalize_text: the argument s
    respelled_title,    \* normalize_text: s with its whitespace runs respelled
    normalized,         \* normalize_text: the values returned, by argument
    paper_data,    \* search_related_papers: the candidate
    path,          \* search_related_papers: the return statement taken
    calls,         \* search_related_papers: the calls finished so far
    pending,       \* search_related_papers: the requests still to come
    paper_id,      \* merge_paper: the target
    new_data,      \* merge_paper: the draft
    mode,          \* merge_paper: the mode
    fields,        \* merge_paper: the field list
    returned,      \* merge_paper: the value returned
    request,       \* a sequence of calls: the call made last
    before,        \* a sequence of calls: the tables before the call made last
    response,      \* a sequence of calls: what the call made last returned or raised
    steps,         \* a sequence of calls: the calls made so far
    TEMP_FILES,    \* excel_import.TEMP_FILES: the files previewed, by file id
    uuids,         \* preview_file: the file ids handed out so far
    imports,       \* import_file_with_config: the calls finished so far, each with the
                   \* ids registered before and left after it
    tx,            \* concurrent update_paper: each transaction's position and writes
    relation       \* concurrent update_paper: the association list both requests set

joinVars == <<needs_author, needs_tag>>
textVars == <<raw_title, respelled_title, normalized>>
relatedVars == <<paper_data, path, calls, pending>>
mergeVars == <<paper_id, new_data, mode, fields, returned>>
callVars == <<request, before, response, steps>>
importVars == <<TEMP_FILES, uuids, imports>>
raceVars == <<tx, relation>>
vars ==
    <<pc, condition, db_condition, group, conditions, db, query_data, skip, limit, result,
      joinVars, textVars, relatedVars, mergeVars, callVars, importVars, raceVars>>

(***************************************************************************)
(* Bounds                                                                  *)
(***************************************************************************)
\* longest text drawn as a condition value or as a column value
MaxLen == 2
\* deepest nesting of groups in a filter tree drawn for build_query_conditions
MaxDepth == 2
\* most papers in a store drawn for search_papers_complex
MaxPapers == 2

(***************************************************************************)
(* Values                                                                  *)
(***************************************************************************)
StrV(s) == [t |-> "str", v |-> s]
IntV(n) == [t |-> "int", v |-> n]
ListV(l) == [t |-> "list", v |-> l]
\* SQL NULL / a column of a relation that is not joined
NULL == [t |-> "null", v |-> 0]
\* Python None, as returned for a skipped condition or an empty group
None == [k |-> "None"]
\* a list of papers, by id, as returned by a query
Rows(ids) == [k |-> "rows", ids |-> ids]
\* an exception leaving a function that returns a predicate
Raise(e) == [k |-> "Raise", exc |-> e]
\* an exception leaving a function that returns a value
Raised(e) == [t |-> "raise", v |-> e]

\* the characters texts are drawn from: letters of both cases, the two LIKE
\* wildcards, a whitespace and digits
Chars == {"a", "A", "%", "_", " ", "0", "1"}
Texts(n) == UNION {[1..m -> Chars] : m \in 0..n}

Digits == {"0", "1", "2", "3", "4", "5", "6", "7", "8", "9"}
DigitVal(c) ==
    CASE c = "0" -> 0 [] c = "1" -> 1 [] c = "2" -> 2 [] c = "3" -> 3 [] c = "4" -> 4
      [] c = "5" -> 5 [] c = "6" -> 6 [] c = "7" -> 7 [] c = "8" -> 8 [] c = "9" -> 9
DigitChar(n) ==
    CASE n = 0 -> "0" [] n = 1 -> "1" [] n = 2 -> "2" [] n = 3 -> "3" [] n = 4 -> "4"
      [] n = 5 -> "5" [] n = 6 -> "6" [] n = 7 -> "7" [] n = 8 -> "8" [] n = 9 -> "9"

\* characters outside ASCII, named by code point: NO-BREAK SPACE, NARROW
\* NO-BREAK SPACE and FULLWIDTH DIGIT ONE
NBSP == "U+00A0"
NNBSP == "U+202F"
FullwidthOne == "U+FF11"
\* str.isspace(): the whitespace of str.strip() and str.split()
IsSpace(c) == c \in {" ", NBSP, NNBSP}

\* str.strip(): leading and trailing whitespace removed
RECURSIVE lstrip(_)
lstrip(s) == IF s # <<>> /\ IsSpace(Head(s)) THEN lstrip(Tail(s)) ELSE s
RECURSIVE rstrip(_)
rstrip(s) ==
    IF s # <<>> /\ IsSpace(s[Len(s)]) THEN rstrip(SubSeq(s, 1, Len(s) - 1)) ELSE s
strip(s) == rstrip(lstrip(s))

\* str(n): the decimal digits of n, after a minus sign when n is negative
RECURSIVE int_to_text(_)
int_to_text(n) ==
    IF n < 0 THEN <<"-">> \o int_to_text(-n)
    ELSE IF n < 10 THEN <<DigitChar(n)>>
    ELSE int_to_text(n \div 10) \o <<DigitChar(n % 10)>>

\* repr of a list of str: ['a', 'b']
RECURSIVE list_items_text(_)
list_items_text(l) ==
    IF l = <<>> THEN <<>>
    ELSE <<"'">> \o Head(l) \o <<"'">>
         \o (IF Tail(l) = <<>> THEN <<>> ELSE <<",", " ">> \o list_items_text(Tail(l)))
\* str(value)
str(value) ==
    CASE value.t = "str" -> value.v
      [] value.t = "int" -> int_to_text(value.v)
      [] value.t = "list" -> <<"[">> \o list_items_text(value.v) \o <<"]">>

\* the digits of an int literal: digit groups separated by single underscores
RECURSIVE is_digits(_, _)
is_digits(s, afterDigit) ==
    IF s = <<>> THEN afterDigit
    ELSE IF Head(s) \in Digits THEN is_digits(Tail(s), TRUE)
    ELSE IF Head(s) = "_" THEN afterDigit /\ Tail(s) # <<>> /\ Tail(s)[1] \in Digits
                                /\ is_digits(Tail(s), FALSE)
    ELSE FALSE
RECURSIVE digits_value(_, _)
digits_value(s, acc) ==
    IF s = <<>> THEN acc
    ELSE IF Head(s) = "_" THEN digits_value(Tail(s), acc)
    ELSE digits_value(Tail(s), 10 * acc + DigitVal(Head(s)))
\* an int literal: an optional sign, then the digits
has_sign(s) == s # <<>> /\ Head(s) \in {"+", "-"}
is_int_literal(s) == is_digits(IF has_sign(s) THEN Tail(s) ELSE s, FALSE)
literal_value(s) ==
    IF has_sign(s)
    THEN (IF Head(s) = "-" THEN -1 ELSE 1) * digits_value(Tail(s), 0)
    ELSE digits_value(s, 0)

\* int(value): an int is itself, a text is parsed (surrounding whitespace
\* ignored) or raises ValueError, a list raises TypeError
int(value) ==
    CASE value.t = "int" -> IntV(value.v)
      [] value.t = "str" ->
            IF is_int_literal(strip(value.v))
            THEN IntV(literal_value(strip(value.v)))
            ELSE Raised("ValueError")
      [] value.t = "list" -> Raised("TypeError")

(***************************************************************************)
(* The store's text operators                                              *)
(***************************************************************************)
Lower(c) == IF c = "A" THEN "a" ELSE c

\* text ILIKE pattern: % is any run of characters, _ any one character,
\* every other character matches itself ignoring case
RECURSIVE ilike(_, _)
ilike(s, pat) ==
    IF pat = <<>> THEN s = <<>>
    ELSE IF Head(pat) = "%"
         THEN ilike(s, Tail(pat)) \/ (s # <<>> /\ ilike(Tail(s), pat))
    ELSE IF s = <<>> THEN FALSE
    ELSE IF Head(pat) = "_" THEN ilike(Tail(s), Tail(pat))
    ELSE Lower(Head(s)) = Lower(Head(pat)) /\ ilike(Tail(s), Tail(pat))

(***************************************************************************)
(* build_single_condition                                                  *)
(***************************************************************************)
FilterCondition(f, o, v) == [field |-> f, operator |-> o, value |-> v]

\* predicates over a row of the (joined) query
Ilike(c, p) == [k |-> "ilike", col |-> c, arg |-> p]
Eq(c, a) == [k |-> "eq", col |-> c, arg |-> a]
Ge(c, a) == [k |-> "ge", col |-> c, arg |-> a]
Le(c, a) == [k |-> "le", col |-> c, arg |-> a]
In(c, a) == [k |-> "in", col |-> c, arg |-> a]

\* "not value": the empty text, the int 0 and the empty list are falsy
falsy(value) ==
    CASE value.t = "str" -> value.v = <<>>
      [] value.t = "int" -> value.v = 0
      [] value.t = "list" -> value.v = <<>>

\* the guard of line 316 without its strip() half
is_empty_value_no_strip(value) == falsy(value)
\* line 316: not value or (isinstance(value, str) and value.strip() == '')
is_empty_value(value) ==
    falsy(value) \/ (value.t = "str" /\ strip(value.v) = <<>>)

\* an except clause that forgets TypeError
caught_value_error_only(e) == e = "ValueError"
\* line 373: except (ValueError, TypeError)
caught(e) == e \in {"ValueError", "TypeError"}

\* a comparison k of column col with int(value) inside the try block: the
\* predicate, nothing when the exception is caught (control falls to the final
\* return None), or the exception when it is not
on_int(k, col, value) ==
    LET n == int(value)
    IN  IF n.t = "int" THEN [k |-> k, col |-> col, arg |-> n]
        ELSE IF caught(n.v) THEN None ELSE Raise(n.v)

text_condition(col, operator, value) ==
    CASE operator = "contains" -> Ilike(col, <<"%">> \o str(value) \o <<"%">>)
      [] operator = "equals" -> Eq(col, StrV(str(value)))
      [] OTHER -> None

\* lines 338-342 and 350-354 with greater_than taken as a strict bound
lower_bound_condition_strict(col, operator, value) ==
    CASE operator = "greater_than" -> on_int("gt", col, value)
      [] operator = "greater_equal" -> on_int("ge", col, value)
      [] operator = "equals" -> on_int("eq", col, value)
      [] OTHER -> None
\* lines 338-342 and 350-354: year_from and min_citations
lower_bound_condition(col, operator, value) ==
    CASE operator \in {"greater_than", "greater_equal"} -> on_int("ge", col, value)
      [] operator = "equals" -> on_int("eq", col, value)
      [] OTHER -> None

\* lines 344-348 and 356-360: year_to and max_citations
upper_bound_condition(col, operator, value) ==
    CASE operator \in {"less_than", "less_equal"} -> on_int("le", col, value)
      [] operator = "equals" -> on_int("eq", col, value)
      [] OTHER -> None

build_single_condition(c) ==
    IF is_empty_value(c.value) THEN None
    ELSE CASE c.field = "title_keyword" -> text_condition("Paper.title", c.operator, c.value)
           [] c.field = "abstract_keyword" ->
                 text_condition("Paper.abstract", c.operator, c.value)
           [] c.field = "author_name" -> text_condition("Author.name", c.operator, c.value)
           [] c.field = "year_from" ->
                 lower_bound_condition("Paper.publication_year", c.operator, c.value)
           [] c.field = "year_to" ->
                 upper_bound_condition("Paper.publication_year", c.operator, c.value)
           [] c.field = "min_citations" ->
                 lower_bound_condition("Paper.citation_count", c.operator, c.value)
           [] c.field = "max_citations" ->
                 upper_bound_condition("Paper.citation_count", c.operator, c.value)
           [] c.field = "venue_id" ->
                 IF c.operator = "equals"
                 THEN on_int("eq", "Paper.venue_id", c.value)
                 ELSE None
           [] c.field = "tags" ->
                 IF c.operator = "in" /\ c.value.t = "list" THEN In("Tag.name", c.value.v)
                 ELSE IF c.operator = "equals"
                 THEN Eq("Tag.name",
                         StrV(IF c.value.t = "list" THEN c.value.v[1] ELSE str(c.value)))
                 ELSE None
           [] OTHER -> None

(***************************************************************************)
(* Evaluation of a predicate on one row of the query, in SQL's three-      *)
(* valued logic: "T", "F" or "U" (unknown, from a NULL column).  A WHERE   *)
(* clause keeps the rows on which the predicate is "T".                    *)
(***************************************************************************)
\* a row: the paper's columns and, when the relation is joined, the columns of
\* one of its authors and of one of its tags
column(row, c) ==
    CASE c = "Paper.title" -> row.title
      [] c = "Paper.abstract" -> row.abstract
      [] c = "Paper.publication_year" -> row.publication_year
      [] c = "Paper.citation_count" -> row.citation_count
      [] c = "Paper.venue_id" -> row.venue_id
      [] c = "Author.name" -> row.author_name
      [] c = "Tag.name" -> row.tag_name

Bool3(b) == IF b THEN "T" ELSE "F"
And3(S) == IF "F" \in S THEN "F" ELSE IF "U" \in S THEN "U" ELSE "T"
Or3(S) == IF "T" \in S THEN "T" ELSE IF "U" \in S THEN "U" ELSE "F"

RECURSIVE eval(_, _)
eval(p, row) ==
    CASE p.k = "and" -> And3({eval(p.args[i], row) : i \in DOMAIN p.args})
      [] p.k = "or" -> Or3({eval(p.args[i], row) : i \in DOMAIN p.args})
      [] OTHER ->
            LET x == column(row, p.col)
            IN  IF x.t = "null" THEN "U"
                ELSE CASE p.k = "ilike" -> Bool3(ilike(x.v, p.arg))
                       [] p.k = "eq" -> Bool3(x.v = p.arg.v)
                       [] p.k = "ge" -> Bool3(x.v >= p.arg.v)
                       [] p.k = "le" -> Bool3(x.v <= p.arg.v)
                       [] p.k = "in" -> Bool3(\E i \in DOMAIN p.arg : p.arg[i] = x.v)

(***************************************************************************)
(* Specification of build_single_condition: a condition is drawn, the      *)
(* function is applied to it.                                              *)
(***************************************************************************)
Fields ==
    {"title_keyword", "abstract_keyword", "author_name", "year_from", "year_to",
     "min_citations", "max_citations", "venue_id", "tags", "keywords"}
Operators ==
    {"contains", "equals", "greater_than", "greater_equal", "less_than", "less_equal",
     "in", "not_equals"}
IntValues == {IntV(n) : n \in {-1, 0, 1, 12}}
ListValues ==
    {ListV(<<>>), ListV(<< <<"a">> >>), ListV(<< <<"a">>, <<"A">> >>), ListV(<< <<>> >>)}
SignedTexts == {StrV(<<"-", "1">>), StrV(<<"+", "0">>), StrV(<<"-">>)}
Values == IntValues \cup ListValues \cup SignedTexts \cup {StrV(s) : s \in Texts(MaxLen)}

NoGroup == [operator |-> "", conditions |-> <<>>, groups |-> <<>>]
NoDb == [papers |-> <<>>, authors |-> <<>>, tags |-> <<>>, paper_authors |-> <<>>, paper_tags |-> <<>>]
\* the variables of the calls a specification does not make
IdleJoin == needs_author = FALSE /\ needs_tag = FALSE
IdleText == raw_title = <<>> /\ respelled_title = <<>> /\ normalized = <<>>
IdleRelated == paper_data = None /\ path = "" /\ calls = <<>> /\ pending = <<>>
IdleMerge == paper_id = 0 /\ new_data = None /\ mode = "" /\ fields = None /\ returned = None
IdleCall == request = None /\ before = None /\ response = None /\ steps = 0
IdleImport == TEMP_FILES = <<>> /\ uuids = 0 /\ imports = <<>>
IdleRace == tx = <<>> /\ relation = ""
InitCond ==
    /\ pc = "call"
    /\ \E f \in Fields, o \in Operators, v \in Values : condition = FilterCondition(f, o, v)
    /\ db_condition = None
    /\ group = NoGroup /\ conditions = None
    /\ db = NoDb /\ query_data = [root |-> NoGroup] /\ skip = 0 /\ limit = 0
    /\ result = Rows(<<>>)
    /\ IdleJoin /\ IdleText /\ IdleRelated /\ IdleMerge
    /\ IdleCall /\ IdleImport /\ IdleRace

BuildSingleCondition ==
    /\ pc = "call"
    /\ db_condition' = build_single_condition(condition)
    /\ pc' = "done"
    /\ UNCHANGED <<condition, group, conditions, db, query_data, skip, limit, result>>
    /\ UNCHANGED <<joinVars, textVars, relatedVars, mergeVars>>
    /\ UNCHANGED <<callVars, importVars, raceVars>>

NextCond == BuildSingleCondition
SpecCond == InitCond /\ [][NextCond]_vars

(***************************************************************************)
(* build_query_conditions                                                  *)
(***************************************************************************)
FilterGroup(o, cs, gs) == [operator |-> o, conditions |-> cs, groups |-> gs]

And(ps) == [k |-> "and", args |-> ps]
Or(ps) == [k |-> "or", args |-> ps]

\* lines 300-307 without the "if not conditions" test
combine_no_none(operator, ps) == IF operator = "AND" THEN And(ps) ELSE Or(ps)
\* lines 300-307 with the operator compared ignoring case
combine_any_case(operator, ps) ==
    IF ps = <<>> THEN None
    ELSE IF operator \in {"AND", "and"} THEN And(ps) ELSE Or(ps)
\* lines 300-307: None for no surviving predicate, and_ for 'AND', or_ otherwise
combine(operator, ps) ==
    IF ps = <<>> THEN None
    ELSE IF operator = "AND" THEN And(ps) ELSE Or(ps)

is_kept(p) == p # None
is_raise(p) == p.k = "Raise"
first_raise(ps) == ps[CHOOSE i \in DOMAIN ps : is_raise(ps[i]) /\ \A j \in 1..(i - 1) : ~is_raise(ps[j])]

\* the predicates of a compiled subgroup spliced into its parent's list
RECURSIVE splice(_)
splice(ps) ==
    IF ps = <<>> THEN <<>>
    ELSE (IF Head(ps).k \in {"and", "or"} THEN Head(ps).args ELSE <<Head(ps)>>)
         \o splice(Tail(ps))
\* build_query_conditions with subgroups flattened into their parent
RECURSIVE build_query_conditions_flat(_)
build_query_conditions_flat(g) ==
    LET direct == [i \in DOMAIN g.conditions |-> build_single_condition(g.conditions[i])]
        sub == [i \in DOMAIN g.groups |-> build_query_conditions_flat(g.groups[i])]
        all == direct \o splice(sub)
    IN  IF \E i \in DOMAIN all : is_raise(all[i]) THEN first_raise(all)
        ELSE combine(g.operator, SelectSeq(all, is_kept))

\* lines 284-307: the direct conditions in order, then the subgroups in
\* order, None results dropped; an exception of a callee leaves the function
RECURSIVE build_query_conditions(_)
build_query_conditions(g) ==
    LET direct == [i \in DOMAIN g.conditions |-> build_single_condition(g.conditions[i])]
        sub == [i \in DOMAIN g.groups |-> build_query_conditions(g.groups[i])]
        all == direct \o sub
    IN  IF \E i \in DOMAIN all : is_raise(all[i]) THEN first_raise(all)
        ELSE combine(g.operator, SelectSeq(all, is_kept))

(***************************************************************************)
(* Specification of build_query_conditions: a filter tree is drawn, the    *)
(* function is applied to it.                                              *)
(***************************************************************************)
\* valid conditions on three different columns
CondA == FilterCondition("title_keyword", "contains", StrV(<<"a">>))
CondB == FilterCondition("year_from", "greater_equal", StrV(<<"1">>))
CondC == FilterCondition("author_name", "equals", StrV(<<"b">>))
\* int() raises ValueError
CondBadInt == FilterCondition("year_from", "greater_equal", StrV(<<"x">>))
\* int() raises TypeError
CondBadType == FilterCondition("venue_id", "equals", ListV(<< <<"a">> >>))
\* a text where tags/in takes a list
CondBadShape == FilterCondition("tags", "in", StrV(<<"a">>))
\* skipped for its blank value
CondBlank == FilterCondition("title_keyword", "contains", StrV(<<" ">>))
\* the lists of direct conditions a drawn group may hold
ConditionLists ==
    {<<>>, <<CondA>>, <<CondBadInt>>, <<CondBlank, CondBadType>>, <<CondB, CondC>>,
     <<CondA, CondBadType>>, <<CondBadInt, CondC, CondA>>, <<CondBadShape, CondB>>}
GroupOperators == {"AND", "OR", "and", "", "XOR"}
\* the pairs of sibling subgroups a drawn group may hold
SiblingGroups ==
    {FilterGroup("OR", <<CondB, CondC>>, <<>>), FilterGroup("AND", <<CondBadInt>>, <<>>),
     FilterGroup("AND", <<CondA>>, <<>>)}

\* the filter trees nested at most d groups deep: any operator, one of the
\* condition lists, and no subgroup, one subgroup or a pair of siblings
RECURSIVE GroupsOfDepth(_)
SubgroupLists(d) ==
    IF d <= 1 THEN {<<>>}
    ELSE {<<>>} \cup {<<g>> : g \in GroupsOfDepth(d - 1)}
         \cup {<<g, h>> : g, h \in SiblingGroups}
GroupsOfDepth(d) ==
    {FilterGroup(o, cs, gs) :
        o \in GroupOperators, cs \in ConditionLists, gs \in SubgroupLists(d)}

InitCompile ==
    /\ pc = "call"
    /\ \E o \in GroupOperators, cs \in ConditionLists, gs \in SubgroupLists(MaxDepth) :
          group = FilterGroup(o, cs, gs)
    /\ conditions = None
    /\ condition = FilterCondition("", "", StrV(<<>>)) /\ db_condition = None
    /\ db = NoDb /\ query_data = [root |-> NoGroup] /\ skip = 0 /\ limit = 0
    /\ result = Rows(<<>>)
    /\ IdleJoin /\ IdleText /\ IdleRelated /\ IdleMerge
    /\ IdleCall /\ IdleImport /\ IdleRace

BuildQueryConditions ==
    /\ pc = "call"
    /\ conditions' = build_query_conditions(group)
    /\ pc' = "done"
    /\ UNCHANGED <<condition, db_condition, group, db, query_data, skip, limit, result>>
    /\ UNCHANGED <<joinVars, textVars, relatedVars, mergeVars>>
    /\ UNCHANGED <<callVars, importVars, raceVars>>

NextCompile == BuildQueryConditions
SpecCompile == InitCompile /\ [][NextCompile]_vars

(***************************************************************************)
(* search_papers_complex                                                   *)
(***************************************************************************)
\* lines 264-272 looking no deeper than the subgroups of the root
check_needs_author_join_shallow(g) ==
    \/ \E i \in DOMAIN g.conditions : g.conditions[i].field = "author_name"
    \/ \E i \in DOMAIN g.groups :
          \E j \in DOMAIN g.groups[i].conditions :
             g.groups[i].conditions[j].field = "author_name"
\* lines 264-272
RECURSIVE check_needs_author_join(_)
check_needs_author_join(g) ==
    \/ \E i \in DOMAIN g.conditions : g.conditions[i].field = "author_name"
    \/ \E i \in DOMAIN g.groups : check_needs_author_join(g.groups[i])
\* lines 274-282
RECURSIVE check_needs_tag_join(_)
check_needs_tag_join(g) ==
    \/ \E i \in DOMAIN g.conditions : g.conditions[i].field = "tags"
    \/ \E i \in DOMAIN g.groups : check_needs_tag_join(g.groups[i])

\* the store: papers[i] is the row of the paper with id i; authors and tags
\* map an id to a name; paper_authors and paper_tags are the association rows
Range(s) == {s[i] : i \in DOMAIN s}
PaperIds(d) == DOMAIN d.papers
author_names_of(d, id) ==
    {StrV(d.authors[r.author_id]) : r \in {x \in Range(d.paper_authors) : x.paper_id = id}}
tag_names_of(d, id) ==
    {StrV(d.tags[r.tag_id]) : r \in {x \in Range(d.paper_tags) : x.paper_id = id}}
Row(paper, a, t) ==
    [title |-> paper.title, abstract |-> paper.abstract,
     publication_year |-> paper.publication_year, citation_count |-> paper.citation_count,
     venue_id |-> paper.venue_id, author_name |-> a, tag_name |-> t]

\* lines 239-254: the rows of papers, inner-joined with paper_authors and
\* authors and with paper_tags and tags when asked for; a relation that is not
\* joined has no column in the row
joined_rows(d, id, author_join, tag_join) ==
    {Row(d.papers[id], a, t) :
        a \in (IF author_join THEN author_names_of(d, id) ELSE {NULL}),
        t \in (IF tag_join THEN tag_names_of(d, id) ELSE {NULL})}

\* the orders in which the store may hand out a set of rows (no ORDER BY)
Orderings(S) ==
    {f \in [1..Cardinality(S) -> S] : \A i, j \in 1..Cardinality(S) : f[i] = f[j] => i = j}
\* offset(skip).limit(limit)
Page(order, sk, lim) ==
    SubSeq(order, sk + 1, IF sk + lim < Len(order) THEN sk + lim ELSE Len(order))

\* lines 69-74: the lists get_papers may return
get_papers(d, sk, lim) == {Rows(Page(order, sk, lim)) : order \in Orderings(PaperIds(d))}

\* lines 237-262 without .distinct(): one entry for each joined row kept
search_papers_complex_no_distinct(d, q, sk, lim) ==
    LET needs_author_join == check_needs_author_join(q.root)
        needs_tag_join == check_needs_tag_join(q.root)
        where == build_query_conditions(q.root)
        kept(id) ==
            {row \in joined_rows(d, id, needs_author_join, needs_tag_join) :
                where = None \/ eval(where, row) = "T"}
        all == UNION {{<<id, row>> : row \in kept(id)} : id \in PaperIds(d)}
        ids(page) == [i \in DOMAIN page |-> page[i][1]]
    IN  IF is_raise(where) THEN {where}
        ELSE {Rows(ids(Page(order, sk, lim))) : order \in Orderings(all)}

\* lines 237-262: the lists search_papers_complex may return, or the exception
\* of build_query_conditions
search_papers_complex(d, q, sk, lim) ==
    LET needs_author_join == check_needs_author_join(q.root)
        needs_tag_join == check_needs_tag_join(q.root)
        where == build_query_conditions(q.root)
        kept(id) ==
            {row \in joined_rows(d, id, needs_author_join, needs_tag_join) :
                where = None \/ eval(where, row) = "T"}
        distinct == {id \in PaperIds(d) : kept(id) # {}}
    IN  IF is_raise(where) THEN {where}
        ELSE {Rows(Page(order, sk, lim)) : order \in Orderings(distinct)}

(***************************************************************************)
(* Specification of search_papers_complex: a store, a query and a page are *)
(* drawn, the search is run.                                               *)
(***************************************************************************)
AuthorNames == <<(<<"a">>), (<<"b">>)>>
TagNames == <<(<<"a">>), (<<"b">>)>>
Paper(title, abstract, year) ==
    [title |-> StrV(title), abstract |-> abstract, publication_year |-> IntV(year),
     citation_count |-> IntV(0), venue_id |-> NULL]
\* the papers a drawn store may hold, each with its author ids and tag ids
PaperShapes ==
    {[paper |-> Paper(<<"a">>, NULL, 1), author_ids |-> {}, tag_ids |-> {}],
     [paper |-> Paper(<<"b">>, StrV(<<"a">>), 0), author_ids |-> {}, tag_ids |-> {1}],
     [paper |-> Paper(<<"a">>, NULL, 0), author_ids |-> {1}, tag_ids |-> {}],
     [paper |-> Paper(<<"b">>, NULL, 1), author_ids |-> {1}, tag_ids |-> {1, 2}],
     [paper |-> Paper(<<"b">>, StrV(<<"b">>), 0), author_ids |-> {1, 2}, tag_ids |-> {2}],
     [paper |-> Paper(<<"A">>, NULL, 1), author_ids |-> {2}, tag_ids |-> {1, 2}],
     [paper |-> Paper(<<"b">>, NULL, 0), author_ids |-> {2}, tag_ids |-> {}],
     [paper |-> Paper(<<"a">>, StrV(<<"a">>), 0), author_ids |-> {1, 2}, tag_ids |-> {1, 2}]}
\* the association rows of the papers of a list of shapes, in id order
RECURSIVE links(_, _, _)
links(shapes, id, which) ==
    IF id > Len(shapes) THEN <<>>
    ELSE LET ids == IF which = "author" THEN shapes[id].author_ids ELSE shapes[id].tag_ids
             row(x) == IF which = "author"
                       THEN [paper_id |-> id, author_id |-> x, author_order |-> x]
                       ELSE [paper_id |-> id, tag_id |-> x]
         IN  (IF 1 \in ids THEN <<row(1)>> ELSE <<>>)
             \o (IF 2 \in ids THEN <<row(2)>> ELSE <<>>)
             \o links(shapes, id + 1, which)
Store(shapes) ==
    [papers |-> [i \in DOMAIN shapes |-> shapes[i].paper],
     authors |-> AuthorNames, tags |-> TagNames,
     paper_authors |-> links(shapes, 1, "author"), paper_tags |-> links(shapes, 1, "tag")]
Stores == {Store(shapes) : shapes \in UNION {[1..n -> PaperShapes] : n \in 0..MaxPapers}}

TitleHasA == FilterCondition("title_keyword", "contains", StrV(<<"a">>))
YearFrom1 == FilterCondition("year_from", "greater_equal", IntV(1))
AuthorIsA == FilterCondition("author_name", "equals", StrV(<<"a">>))
TagIsA == FilterCondition("tags", "equals", StrV(<<"a">>))
TagIsB == FilterCondition("tags", "equals", ListV(<< <<"b">> >>))
AuthorBlank == FilterCondition("author_name", "contains", StrV(<<>>))
TagsBlank == FilterCondition("tags", "in", ListV(<<>>))
SearchConditions == {TitleHasA, YearFrom1, AuthorIsA, TagIsA, TagIsB}
\* the queries drawn: every group of two valid conditions under AND and under
\* OR, trees that compile to None, and nested trees
Queries ==
    {[root |-> FilterGroup(o, <<c1, c2>>, <<>>)] :
        o \in {"AND", "OR"}, c1 \in SearchConditions, c2 \in SearchConditions}
    \cup {[root |-> FilterGroup(o, cs, <<>>)] :
            o \in {"AND", "OR"}, cs \in {<<>>, <<AuthorBlank>>, <<TagsBlank>>, <<CondBadInt>>}}
    \cup {[root |-> FilterGroup("AND", <<>>, <<FilterGroup("OR", <<AuthorBlank>>, <<>>)>>)],
           [root |-> FilterGroup("AND", <<TitleHasA>>,
                                 <<FilterGroup("OR", <<AuthorIsA, TagIsB>>, <<>>)>>)],
           [root |-> FilterGroup("OR", <<YearFrom1>>,
                                 <<FilterGroup("AND", <<TagIsA, AuthorIsA>>, <<>>)>>)]}
\* the pages drawn: the endpoint's default and a page of one row
Pages == {[skip |-> 0, limit |-> 100], [skip |-> 1, limit |-> 1]}

Init ==
    /\ pc = "call"
    /\ db \in Stores
    /\ query_data \in Queries
    /\ \E page \in Pages : skip = page.skip /\ limit = page.limit
    /\ result = Rows(<<>>)
    /\ condition = FilterCondition("", "", StrV(<<>>)) /\ db_condition = None
    /\ group = NoGroup /\ conditions = None
    /\ IdleJoin /\ IdleText /\ IdleRelated /\ IdleMerge
    /\ IdleCall /\ IdleImport /\ IdleRace

SearchPapersComplex ==
    /\ pc = "call"
    /\ result' \in search_papers_complex(db, query_data, skip, limit)
    /\ pc' = "done"
    /\ UNCHANGED <<condition, db_condition, group, conditions, db, query_data, skip, limit>>
    /\ UNCHANGED <<joinVars, textVars, relatedVars, mergeVars>>
    /\ UNCHANGED <<callVars, importVars, raceVars>>

Next == SearchPapersComplex
Spec == Init /\ [][Next]_vars

(***************************************************************************)
(* Specification of the join analysis: a filter tree is drawn,             *)
(* check_needs_author_join and then check_needs_tag_join are applied to    *)
(* it, in the order of lines 246-247.                                      *)
(***************************************************************************)
\* the lists of direct conditions a group of a drawn tree may hold
JoinConditionLists == {<<>>, <<TitleHasA>>, <<YearFrom1, AuthorIsA>>, <<TagsBlank>>}
JoinOperators == {"AND", "OR"}
\* a pair of sibling subgroups, one of them naming both relations
JoinSiblings ==
    <<FilterGroup("OR", <<TitleHasA>>, <<>>), FilterGroup("", <<TagIsA, AuthorBlank>>, <<>>)>>
\* the deepest nesting drawn: the root and three levels of subgroups below it
JoinDepth == MaxDepth + 2
\* the trees nested at most d groups deep: no subgroup, one subgroup, or the
\* pair of siblings
RECURSIVE JoinTrees(_)
JoinSubgroups(d) ==
    IF d <= 1 THEN {<<>>}
    ELSE {<<>>, JoinSiblings} \cup {<<g>> : g \in JoinTrees(d - 1)}
JoinTrees(d) ==
    {FilterGroup(o, cs, gs) :
        o \in JoinOperators, cs \in JoinConditionLists, gs \in JoinSubgroups(d)}

InitJoin ==
    /\ pc = "call"
    /\ \E o \in JoinOperators, cs \in JoinConditionLists, gs \in JoinSubgroups(JoinDepth) :
          group = FilterGroup(o, cs, gs)
    /\ needs_author = FALSE /\ needs_tag = FALSE
    /\ conditions = None
    /\ condition = FilterCondition("", "", StrV(<<>>)) /\ db_condition = None
    /\ db = NoDb /\ query_data = [root |-> NoGroup] /\ skip = 0 /\ limit = 0
    /\ result = Rows(<<>>)
    /\ IdleText /\ IdleRelated /\ IdleMerge
    /\ IdleCall /\ IdleImport /\ IdleRace

\* line 246
CheckNeedsAuthorJoin ==
    /\ pc = "call"
    /\ needs_author' = check_needs_author_join(group)
    /\ pc' = "author_checked"
    /\ UNCHANGED <<condition, db_condition, group, conditions, db, query_data, skip, limit, result>>
    /\ UNCHANGED <<needs_tag, textVars, relatedVars, mergeVars>>
    /\ UNCHANGED <<callVars, importVars, raceVars>>
\* line 247
CheckNeedsTagJoin ==
    /\ pc = "author_checked"
    /\ needs_tag' = check_needs_tag_join(group)
    /\ pc' = "done"
    /\ UNCHANGED <<condition, db_condition, group, conditions, db, query_data, skip, limit, result>>
    /\ UNCHANGED <<needs_author, textVars, relatedVars, mergeVars>>
    /\ UNCHANGED <<callVars, importVars, raceVars>>

NextJoin == CheckNeedsAuthorJoin \/ CheckNeedsTagJoin
SpecJoin == InitJoin /\ [][NextJoin]_vars

(***************************************************************************)
(* normalize_text                                                          *)
(***************************************************************************)
\* unicodedata.normalize("NFKC", s) on the characters drawn: both no-break
\* spaces have the compatibility mapping SPACE, the fullwidth digit has the
\* mapping DIGIT ONE, every other character drawn is its own normal form and
\* none of them combines with its neighbour
nfkc_char(c) ==
    CASE c \in {NBSP, NNBSP} -> " "
      [] c = FullwidthOne -> "1"
      [] OTHER -> c
NFKC(s) == [i \in DOMAIN s |-> nfkc_char(s[i])]
\* str.replace(old, new) and SQL replace(s, old, new): the occurrences of
\* old, found from the left without overlap, replaced by new
RECURSIVE replace(_, _, _)
replace(s, old, new) ==
    IF Len(s) < Len(old) THEN s
    ELSE IF SubSeq(s, 1, Len(old)) = old
         THEN new \o replace(SubSeq(s, Len(old) + 1, Len(s)), old, new)
    ELSE <<Head(s)>> \o replace(Tail(s), old, new)
\* s.split(): the maximal runs of characters that are not whitespace
RECURSIVE word_end(_, _)
word_end(s, i) == IF i > Len(s) \/ IsSpace(s[i]) THEN i - 1 ELSE word_end(s, i + 1)
RECURSIVE split(_)
split(s) ==
    LET rest == lstrip(s)
    IN  IF rest = <<>> THEN <<>>
        ELSE <<SubSeq(rest, 1, word_end(rest, 1))>>
             \o split(SubSeq(rest, word_end(rest, 1) + 1, Len(rest)))
\* sep.join(words)
RECURSIVE join(_, _)
join(sep, words) ==
    IF words = <<>> THEN <<>>
    ELSE IF Len(words) = 1 THEN Head(words)
    ELSE Head(words) \o sep \o join(sep, Tail(words))
\* str.lower() and SQL lower()
lower(s) == [i \in DOMAIN s |-> Lower(s[i])]

\* lines 527-533 with the whitespace cleaned as lines 553-563 clean a stored
\* title: one replace of two spaces by one in place of split and join
normalize_text_one_replace(s) ==
    IF s = <<>> THEN <<>>
    ELSE lower(strip(replace(replace(replace(NFKC(s), <<NBSP>>, <<" ">>),
                                     <<NNBSP>>, <<" ">>),
                             <<" ", " ">>, <<" ">>)))
\* lines 527-533
normalize_text(s) ==
    IF s = <<>> THEN <<>>
    ELSE lower(strip(join(<<" ">>,
                          split(replace(replace(NFKC(s), <<NBSP>>, <<" ">>),
                                        <<NNBSP>>, <<" ">>)))))

(***************************************************************************)
(* Specification of normalize_text: a text and a respelling of its         *)
(* whitespace are drawn, the function is applied to both and then to its   *)
(* own result.                                                             *)
(***************************************************************************)
\* longest run of one kind of whitespace drawn
MaxRun == 3
RECURSIVE run_of(_, _)
run_of(c, n) == IF n = 0 THEN <<>> ELSE <<c>> \o run_of(c, n - 1)
\* the whitespace runs drawn between two words: one kind repeated, or mixed
Gaps ==
    {run_of(c, n) : c \in {" ", NBSP, NNBSP}, n \in 1..MaxRun}
    \cup {<<" ", NBSP>>, <<NNBSP, " ", " ">>}
\* the whitespace drawn before the first word and after the last
Edges == {<<>>, <<" ">>, <<NBSP, NNBSP>>}
FirstWords == {<<"a">>, <<"A", "b">>, <<FullwidthOne>>, <<>>}
SecondWords == {<<"b">>, <<"A">>}
spell(lead, w1, gap, w2, trail) == lead \o w1 \o gap \o w2 \o trail

InitText ==
    /\ pc = "call"
    /\ \E w1 \in FirstWords, w2 \in SecondWords, gap1, gap2 \in Gaps,
          lead1, lead2, trail1 \in Edges :
          /\ raw_title = spell(lead1, w1, gap1, w2, trail1)
          /\ respelled_title = spell(lead2, w1, gap2, w2, <<>>)
    /\ normalized = <<>>
    /\ condition = FilterCondition("", "", StrV(<<>>)) /\ db_condition = None
    /\ group = NoGroup /\ conditions = None
    /\ db = NoDb /\ query_data = [root |-> NoGroup] /\ skip = 0 /\ limit = 0
    /\ result = Rows(<<>>)
    /\ IdleJoin /\ IdleRelated /\ IdleMerge
    /\ IdleCall /\ IdleImport /\ IdleRace

\* normalize_text applied to the text and to its respelling
NormalizeText ==
    /\ pc = "call"
    /\ normalized' = <<normalize_text(raw_title), normalize_text(respelled_title)>>
    /\ pc' = "normalized"
    /\ UNCHANGED <<condition, db_condition, group, conditions, db, query_data, skip, limit, result>>
    /\ UNCHANGED <<raw_title, respelled_title, joinVars, relatedVars, mergeVars>>
    /\ UNCHANGED <<callVars, importVars, raceVars>>
\* normalize_text applied to its own result
NormalizeAgain ==
    /\ pc = "normalized"
    /\ normalized' = Append(normalized, normalize_text(normalized[1]))
    /\ pc' = "done"
    /\ UNCHANGED <<condition, db_condition, group, conditions, db, query_data, skip, limit, result>>
    /\ UNCHANGED <<raw_title, respelled_title, joinVars, relatedVars, mergeVars>>
    /\ UNCHANGED <<callVars, importVars, raceVars>>

NextText == NormalizeText \/ NormalizeAgain
SpecText == InitText /\ [][NextText]_vars

(***************************************************************************)
(* search_related_papers                                                   *)
(***************************************************************************)
\* schemas.PaperCreate
PaperCreate(title, abstract, year, doi, citations, venue, keywords, url, authors, tags) ==
    [title |-> title, abstract |-> abstract, publication_year |-> year, doi |-> doi,
     citation_count |-> citations, venue_id |-> venue, keywords |-> keywords, url |-> url,
     author_ids |-> authors, tag_ids |-> tags]
\* a row of models.Paper: the columns a PaperCreate or a PaperUpdate can set
PaperRow(title, abstract, year, doi, citations, venue, keywords, url) ==
    [title |-> title, abstract |-> abstract, publication_year |-> year, doi |-> doi,
     citation_count |-> citations, venue_id |-> venue, keywords |-> keywords, url |-> url,
     pdf_file_path |-> NULL, file_size |-> NULL]

\* line 569: the length of the prefix of the normalized title matched loosely
FuzzyPrefix == 20
prefix(s, n) == SubSeq(s, 1, IF Len(s) < n THEN Len(s) ELSE n)
\* lines 540-545: the papers whose stored DOI, lowercased, is doi_clean
doi_matches(d, doi_clean) ==
    {id \in PaperIds(d) : d.papers[id].doi # NULL /\ lower(d.papers[id].doi.v) = doi_clean}
\* lines 553-563: the stored title as the query cleans it
db_title_norm(title) ==
    lower(replace(replace(replace(title, <<NBSP>>, <<" ">>), <<NNBSP>>, <<" ">>),
                  <<" ", " ">>, <<" ">>))
\* line 566
exact(title, title_norm) == db_title_norm(title) = title_norm
\* line 569
fuzzy(title, title_norm) ==
    ilike(db_title_norm(title), <<"%">> \o prefix(title_norm, FuzzyPrefix) \o <<"%">>)
\* a return statement of search_related_papers and the list it returns
Outcome(p, ids) == [path |-> p, result |-> Rows(ids)]

\* lines 536-583 with the fallback query not limited
search_related_papers_all_fallback(d, data, lim) ==
    LET exists ==
            IF data.doi # NULL /\ ~falsy(data.doi)
            THEN doi_matches(d, lower(strip(data.doi.v))) ELSE {}
        title_norm == normalize_text(data.title.v)
        matched ==
            {id \in PaperIds(d) : \/ exact(d.papers[id].title.v, title_norm)
                                  \/ fuzzy(d.papers[id].title.v, title_norm)}
        results == {Page(order, 0, lim) : order \in Orderings(matched)}
    IN  IF exists # {} THEN {Outcome("doi", <<id>>) : id \in exists}
        ELSE {Outcome("title", r) : r \in results \ {<<>>}}
             \cup (IF <<>> \in results
                   THEN {Outcome("fallback", order) : order \in Orderings(PaperIds(d))}
                   ELSE {})
\* lines 536-583: the outcomes search_related_papers may have.  first() and
\* limit() without ORDER BY take any of the rows that qualify.
search_related_papers(d, data, lim) ==
    LET exists ==
            IF data.doi # NULL /\ ~falsy(data.doi)
            THEN doi_matches(d, lower(strip(data.doi.v))) ELSE {}
        title_norm == normalize_text(data.title.v)
        matched ==
            {id \in PaperIds(d) : \/ exact(d.papers[id].title.v, title_norm)
                                  \/ fuzzy(d.papers[id].title.v, title_norm)}
        results == {Page(order, 0, lim) : order \in Orderings(matched)}
    IN  IF exists # {} THEN {Outcome("doi", <<id>>) : id \in exists}
        ELSE {Outcome("title", r) : r \in results \ {<<>>}}
             \cup (IF <<>> \in results
                   THEN {Outcome("fallback", Page(order, 0, lim)) :
                            order \in Orderings(PaperIds(d))}
                   ELSE {})

(***************************************************************************)
(* Specifications of search_related_papers: a store, a candidate and a     *)
(* limit are drawn and the search is run (SpecRelated); a second request   *)
(* on the same store follows the first (SpecRelatedTwice).                 *)
(***************************************************************************)
Doi(s) == StrV(s)
LongTitle(last) == run_of("a", FuzzyPrefix) \o <<last>>
\* the papers a drawn store may hold: title and DOI
RelatedShapes ==
    {[title |-> <<"a", " ", "b">>, doi |-> Doi(<<"1", "/", "a">>)],
     [title |-> <<"a", " ", " ", " ", "b">>, doi |-> NULL],
     [title |-> <<" ", "a", " ", "b", " ">>, doi |-> Doi(<<"1", "/", "A">>)],
     [title |-> <<"a", NBSP, "b">>, doi |-> NULL],
     [title |-> <<"A", " ", " ", "b">>, doi |-> Doi(<<"1", "/", "a", " ">>)],
     [title |-> LongTitle("c"), doi |-> NULL],
     [title |-> <<"b">>, doi |-> Doi(<<"2", "/", "b">>)]}
RelatedStore(shapes) ==
    [papers |-> [i \in DOMAIN shapes |->
                    PaperRow(StrV(shapes[i].title), NULL, IntV(1), shapes[i].doi,
                             IntV(0), NULL, NULL, NULL)],
     authors |-> <<>>, tags |-> <<>>, paper_authors |-> <<>>, paper_tags |-> <<>>]
\* papers.doi is UNIQUE (models.py:37): no two rows hold the same DOI
doi_unique(d) ==
    \A i, j \in PaperIds(d) :
        d.papers[i].doi # NULL /\ d.papers[i].doi = d.papers[j].doi => i = j
RelatedStores ==
    {d \in {RelatedStore(shapes) :
                shapes \in UNION {[1..n -> RelatedShapes] : n \in 0..MaxPapers}} :
        doi_unique(d)}
Candidate(title, doi) ==
    PaperCreate(StrV(title), NULL, IntV(1), doi, IntV(0), NULL, NULL, NULL,
                ListV(<<>>), ListV(<<>>))
Candidates ==
    {Candidate(<<"a", " ", "b">>, NULL),
     Candidate(<<"a", " ", "b">>, Doi(<<"1", "/", "A">>)),
     Candidate(<<"A", " ", " ", "b">>, Doi(<<"1", "/", "a", " ">>)),
     Candidate(<<"z", "z">>, NULL),
     Candidate(LongTitle("b"), NULL),
     Candidate(<<>>, NULL),
     Candidate(<<"z", "z">>, Doi(<<"9", "/", "z">>)),
     Candidate(<<"a", "_", "b">>, Doi(<<" ">>))}
\* the limits drawn: none, fewer than the store may hold, and the default
RelatedLimits == {0, 1, 2, 5}
\* the second requests drawn
SecondRequests ==
    {[paper_data |-> c, limit |-> l] :
        c \in {Candidate(<<"a", " ", "b">>, NULL), Candidate(<<"z", "z">>, NULL)},
        l \in {1, 5}}

InitRelated ==
    /\ pc = "call"
    /\ db \in RelatedStores
    /\ paper_data \in Candidates
    /\ limit \in RelatedLimits
    /\ pending = <<>>
    /\ path = "" /\ calls = <<>> /\ result = Rows(<<>>)
    /\ condition = FilterCondition("", "", StrV(<<>>)) /\ db_condition = None
    /\ group = NoGroup /\ conditions = None
    /\ query_data = [root |-> NoGroup] /\ skip = 0
    /\ IdleJoin /\ IdleText /\ IdleMerge
    /\ IdleCall /\ IdleImport /\ IdleRace
InitRelatedTwice ==
    /\ pc = "call"
    /\ db \in RelatedStores
    /\ paper_data \in Candidates
    /\ limit \in RelatedLimits
    /\ \E r \in SecondRequests : pending = <<r>>
    /\ path = "" /\ calls = <<>> /\ result = Rows(<<>>)
    /\ condition = FilterCondition("", "", StrV(<<>>)) /\ db_condition = None
    /\ group = NoGroup /\ conditions = None
    /\ query_data = [root |-> NoGroup] /\ skip = 0
    /\ IdleJoin /\ IdleText /\ IdleMerge
    /\ IdleCall /\ IdleImport /\ IdleRace

\* a call of search_related_papers
SearchRelatedPapers ==
    /\ pc = "call"
    /\ \E out \in search_related_papers(db, paper_data, limit) :
          /\ result' = out.result
          /\ path' = out.path
          /\ calls' = Append(calls, [paper_data |-> paper_data, limit |-> limit,
                                     path |-> out.path, result |-> out.result])
    /\ pc' = "done"
    /\ UNCHANGED <<condition, db_condition, group, conditions, db, query_data, skip, limit>>
    /\ UNCHANGED <<paper_data, pending, joinVars, textVars, mergeVars>>
    /\ UNCHANGED <<callVars, importVars, raceVars>>
\* the next request arrives
NextRequest ==
    /\ pc = "done" /\ pending # <<>>
    /\ paper_data' = Head(pending).paper_data
    /\ limit' = Head(pending).limit
    /\ pending' = Tail(pending)
    /\ pc' = "call"
    /\ UNCHANGED <<condition, db_condition, group, conditions, db, query_data, skip, result>>
    /\ UNCHANGED <<path, calls, joinVars, textVars, mergeVars>>
    /\ UNCHANGED <<callVars, importVars, raceVars>>

NextRelated == SearchRelatedPapers
SpecRelated == InitRelated /\ [][NextRelated]_vars
NextRelatedTwice == SearchRelatedPapers \/ NextRequest
SpecRelatedTwice == InitRelatedTwice /\ [][NextRelatedTwice]_vars

(***************************************************************************)
(* update_paper and merge_paper                                            *)
(***************************************************************************)
\* the fields of schemas.PaperUpdate
UpdateFields ==
    {"title", "abstract", "publication_year", "doi", "citation_count", "venue_id",
     "keywords", "pdf_file_path", "file_size", "url", "author_ids", "tag_ids"}
\* PaperUpdate(**values): the fields given are set, the others default to None
PaperUpdate(given, values) ==
    [fields_set |-> given \cap UpdateFields,
     v |-> [f \in UpdateFields |-> IF f \in given THEN values[f] ELSE NULL]]
\* what update_paper and merge_paper return: a Paper as refreshed from the
\* store, None, or the exception of the commit
Refreshed(d, id) == [k |-> "Paper", id |-> id, row |-> d.papers[id]]

\* lines 139-151: a row for each author id not yet linked to the paper,
\* author_order the position in the list
RECURSIVE add_authors(_, _, _, _)
add_authors(rows, id, ids, i) ==
    IF i > Len(ids) THEN rows
    ELSE add_authors(
            IF \E r \in Range(rows) : r.paper_id = id /\ r.author_id = ids[i] THEN rows
            ELSE Append(rows, [paper_id |-> id, author_id |-> ids[i], author_order |-> i]),
            id, ids, i + 1)
\* lines 158-166: a row for each tag id not yet linked to the paper
RECURSIVE add_tags(_, _, _, _)
add_tags(rows, id, ids, i) ==
    IF i > Len(ids) THEN rows
    ELSE add_tags(
            IF \E r \in Range(rows) : r.paper_id = id /\ r.tag_id = ids[i] THEN rows
            ELSE Append(rows, [paper_id |-> id, tag_id |-> ids[i]]),
            id, ids, i + 1)
\* lines 137 and 156: the association rows of the paper deleted
RECURSIVE without_paper(_, _)
without_paper(rows, id) ==
    IF rows = <<>> THEN <<>>
    ELSE (IF Head(rows).paper_id = id THEN <<>> ELSE <<Head(rows)>>)
         \o without_paper(Tail(rows), id)
\* line 168: the commit fails on a DOI another paper holds and on an
\* association to an author or a tag that does not exist
commit_fails(d) ==
    \/ ~doi_unique(d)
    \/ \E r \in Range(d.paper_authors) : r.author_id \notin DOMAIN d.authors
    \/ \E r \in Range(d.paper_tags) : r.tag_id \notin DOMAIN d.tags

\* lines 124-170 with the association lists replaced whether or not the
\* update names them: a list that is None is taken as empty
update_paper_always_replaces(d, id, paper) ==
    IF id \notin PaperIds(d) THEN [db |-> d, returned |-> None]
    ELSE LET row ==
                [c \in DOMAIN d.papers[id] |->
                    IF c \in paper.fields_set /\ paper.v[c].t # "null"
                    THEN paper.v[c] ELSE d.papers[id][c]]
             author_ids == IF paper.v.author_ids.t # "null" THEN paper.v.author_ids.v ELSE <<>>
             tag_ids == IF paper.v.tag_ids.t # "null" THEN paper.v.tag_ids.v ELSE <<>>
             after ==
                [d EXCEPT !.papers[id] = row,
                          !.paper_authors = add_authors(without_paper(@, id), id, author_ids, 1),
                          !.paper_tags = add_tags(without_paper(@, id), id, tag_ids, 1)]
         IN  IF commit_fails(after) THEN [db |-> d, returned |-> Raised("IntegrityError")]
             ELSE [db |-> after, returned |-> Refreshed(after, id)]
\* lines 124-170: the store after the call and the value returned
update_paper(d, id, paper) ==
    IF id \notin PaperIds(d) THEN [db |-> d, returned |-> None]
    ELSE LET row ==
                [c \in DOMAIN d.papers[id] |->
                    IF c \in paper.fields_set /\ paper.v[c].t # "null"
                    THEN paper.v[c] ELSE d.papers[id][c]]
             paper_authors ==
                IF paper.v.author_ids.t # "null"
                THEN add_authors(without_paper(d.paper_authors, id), id, paper.v.author_ids.v, 1)
                ELSE d.paper_authors
             paper_tags ==
                IF paper.v.tag_ids.t # "null"
                THEN add_tags(without_paper(d.paper_tags, id), id, paper.v.tag_ids.v, 1)
                ELSE d.paper_tags
             after ==
                [d EXCEPT !.papers[id] = row, !.paper_authors = paper_authors,
                          !.paper_tags = paper_tags]
         IN  IF commit_fails(after) THEN [db |-> d, returned |-> Raised("IntegrityError")]
             ELSE [db |-> after, returned |-> Refreshed(after, id)]

\* lines 699-726 with a mode that is not keep_old or merge_fields taken as
\* overwrite
merge_paper_else_overwrites(d, id, data, how, names) ==
    IF id \notin PaperIds(d) THEN [db |-> d, returned |-> None]
    ELSE IF how = "keep_old" THEN [db |-> d, returned |-> Refreshed(d, id)]
    ELSE IF how = "merge_fields"
         THEN IF names.t = "null" \/ falsy(names) THEN [db |-> d, returned |-> Refreshed(d, id)]
              ELSE update_paper(d, id, PaperUpdate(Range(names.v) \cap DOMAIN data, data))
    ELSE update_paper(d, id, PaperUpdate(DOMAIN data, data))
\* lines 699-726: the store after the call and the value returned
merge_paper(d, id, data, how, names) ==
    IF id \notin PaperIds(d) THEN [db |-> d, returned |-> None]
    ELSE IF how = "keep_old" THEN [db |-> d, returned |-> Refreshed(d, id)]
    ELSE IF how = "overwrite" THEN update_paper(d, id, PaperUpdate(DOMAIN data, data))
    ELSE IF how = "merge_fields"
         THEN IF names.t = "null" \/ falsy(names) THEN [db |-> d, returned |-> Refreshed(d, id)]
              ELSE update_paper(d, id, PaperUpdate(Range(names.v) \cap DOMAIN data, data))
    ELSE [db |-> d, returned |-> Refreshed(d, id)]

(***************************************************************************)
(* Specification of merge_paper: a store, a target, a draft, a mode and a  *)
(* field list are drawn, the merge is run.                                 *)
(***************************************************************************)
\* the papers a drawn store may hold, each with its author ids and tag ids
MergeShapes ==
    {[paper |-> PaperRow(StrV(<<"a">>), StrV(<<"a">>), IntV(1), Doi(<<"1", "/", "a">>),
                         IntV(1), IntV(1), ListV(<< <<"a">> >>), StrV(<<"a">>)),
      author_ids |-> {1}, tag_ids |-> {1, 2}],
     [paper |-> PaperRow(StrV(<<"b">>), NULL, IntV(0), NULL, IntV(0), NULL, NULL, NULL),
      author_ids |-> {}, tag_ids |-> {}],
     [paper |-> PaperRow(StrV(<<"A">>), NULL, IntV(1), Doi(<<"1", "/", "b">>),
                         IntV(0), NULL, NULL, NULL),
      author_ids |-> {1, 2}, tag_ids |-> {2}]}
MergeStores ==
    {d \in {Store(shapes) : shapes \in UNION {[1..n -> MergeShapes] : n \in 0..MaxPapers}} :
        doi_unique(d)}
\* the drafts drawn: one that leaves every optional field null and both
\* lists empty, one that sets every field, one without an author list, and
\* one that names a tag that does not exist
Drafts ==
    {PaperCreate(StrV(<<"b">>), NULL, IntV(0), NULL, IntV(0), NULL, NULL, NULL,
                 ListV(<<>>), ListV(<<>>)),
     PaperCreate(StrV(<<"a">>), StrV(<<"b">>), IntV(1), Doi(<<"1", "/", "b">>), IntV(12),
                 IntV(1), ListV(<< <<"b">> >>), StrV(<<"b">>), ListV(<<2, 1>>), ListV(<<1>>)),
     PaperCreate(StrV(<<"A">>), StrV(<<"a">>), IntV(1), Doi(<<"2", "/", "c">>), NULL,
                 NULL, NULL, StrV(<<"a">>), NULL, ListV(<<2>>)),
     PaperCreate(StrV(<<"b">>), NULL, IntV(1), NULL, IntV(1), NULL, NULL, NULL,
                 ListV(<<1>>), ListV(<<3>>))}
Modes == {"keep_old", "overwrite", "merge_fields", "", "MERGE_FIELDS", "replace"}
FieldLists ==
    {NULL, ListV(<<>>), ListV(<<"citation_count">>), ListV(<<"title", "abstract">>),
     ListV(<<"author_ids">>), ListV(<<"tag_ids", "doi">>), ListV(<<"id">>),
     ListV(<<"pdf_file_path", "url">>),
     ListV(<<"keywords", "venue_id", "publication_year">>)}

InitMerge ==
    /\ pc = "call"
    /\ db \in MergeStores
    /\ paper_id \in 1..(MaxPapers + 1)
    /\ new_data \in Drafts
    /\ mode \in Modes
    /\ fields \in FieldLists
    /\ returned = None
    /\ condition = FilterCondition("", "", StrV(<<>>)) /\ db_condition = None
    /\ group = NoGroup /\ conditions = None
    /\ query_data = [root |-> NoGroup] /\ skip = 0 /\ limit = 0
    /\ result = Rows(<<>>)
    /\ IdleJoin /\ IdleText /\ IdleRelated
    /\ IdleCall /\ IdleImport /\ IdleRace

\* a call of merge_paper
MergePaper ==
    /\ pc = "call"
    /\ db' = merge_paper(db, paper_id, new_data, mode, fields).db
    /\ returned' = merge_paper(db, paper_id, new_data, mode, fields).returned
    /\ pc' = "done"
    /\ UNCHANGED <<condition, db_condition, group, conditions, query_data, skip, limit, result>>
    /\ UNCHANGED <<paper_id, new_data, mode, fields, joinVars, textVars, relatedVars>>
    /\ UNCHANGED <<callVars, importVars, raceVars>>

NextMerge == MergePaper
SpecMerge == InitMerge /\ [][NextMerge]_vars

(***************************************************************************)
(* create_paper, delete_paper and batch_add_tags_to_papers                 *)
(***************************************************************************)
\* True and False as returned by delete_paper
Bool(b) == [k |-> "bool", b |-> b]
\* the truth of an Optional value: None and the values "not" takes as empty
\* are not true
truthy(value) == value # NULL /\ ~falsy(value)
\* reading the attribute name of a pydantic model succeeds for its fields only
has_attribute(paper, name) == name \in DOMAIN paper
\* lines 12-16
check_doi_exists(d, doi) ==
    IF ~truthy(doi) THEN FALSE ELSE \E i \in PaperIds(d) : d.papers[i].doi = doi
\* papers.id is a serial primary key
RECURSIVE next_id(_, _)
next_id(d, i) == IF i \in PaperIds(d) THEN next_id(d, i + 1) ELSE i
\* the ids of a set, ascending
RECURSIVE ascending(_, _)
ascending(S, i) ==
    IF S = {} THEN <<>>
    ELSE IF i \in S THEN <<i>> \o ascending(S \ {i}, i + 1) ELSE ascending(S, i + 1)

\* an exception, as opposed to a value returned
is_raised(r) == "t" \in DOMAIN r /\ r.t = "raise"
\* lines 24-67: the paper row is added and committed, then the association
\* rows are added and committed; a failure after the first commit leaves the
\* paper row in the store.  The first commit fails on a DOI another paper
\* holds (papers_doi_key), the second on an author or a tag that does not exist
insert_paper(d, paper) ==
    LET id == next_id(d, 1)
        row == PaperRow(paper.title, paper.abstract, paper.publication_year, paper.doi,
                        paper.citation_count, paper.venue_id, paper.keywords, paper.url)
        first == [d EXCEPT !.papers =
                    [i \in DOMAIN d.papers \cup {id} |-> IF i = id THEN row ELSE d.papers[i]]]
    IN  IF commit_fails(first) THEN [db |-> d, returned |-> Raised("UniqueViolation")]
        ELSE IF paper.author_ids = NULL \/ paper.tag_ids = NULL
             THEN [db |-> first, returned |-> Raised("TypeError")]
        ELSE LET second ==
                    [first EXCEPT
                        !.paper_authors = add_authors(@, id, paper.author_ids.v, 1),
                        !.paper_tags = add_tags(@, id, paper.tag_ids.v, 1)]
             IN  IF commit_fails(second)
                 THEN [db |-> first, returned |-> Raised("ForeignKeyViolation")]
                 ELSE [db |-> second, returned |-> Refreshed(second, id)]
\* lines 18-67 as if PaperCreate had a document_type field
create_paper_with_document_type(d, paper) ==
    IF truthy(paper.doi) /\ check_doi_exists(d, paper.doi)
    THEN [db |-> d, returned |-> Raised("ValueError")]
    ELSE insert_paper(d, paper)
\* lines 18-67: line 33 reads paper.document_type while the Paper(...) call
\* is being built, before anything is added to the session
create_paper(d, paper) ==
    IF truthy(paper.doi) /\ check_doi_exists(d, paper.doi)
    THEN [db |-> d, returned |-> Raised("ValueError")]
    ELSE IF ~has_attribute(paper, "document_type")
         THEN [db |-> d, returned |-> Raised("AttributeError")]
    ELSE insert_paper(d, paper)
\* main.py lines 59-75: the status and the detail of the response; the detail
\* of lines 66 and 72 quotes paper.doi, the detail of line 75 quotes str(e)
create_paper_endpoint(d, paper) ==
    LET r == create_paper(d, paper)
    IN  IF r.returned = Raised("ValueError")
        THEN [db |-> r.db, returned |-> r.returned, status |-> 400,
              detail |-> [message |-> "DOI exists", doi |-> paper.doi]]
        ELSE IF r.returned = Raised("UniqueViolation")
             THEN [db |-> r.db, returned |-> r.returned, status |-> 400,
                   detail |-> [message |-> "DOI exists, check for a repeated paper",
                               doi |-> paper.doi]]
        ELSE IF is_raised(r.returned)
             THEN [db |-> r.db, returned |-> r.returned, status |-> 500,
                   detail |-> [message |-> "error creating paper", doi |-> NULL]]
        ELSE [db |-> r.db, returned |-> r.returned, status |-> 200,
              detail |-> [message |-> "", doi |-> NULL]]

\* lines 172-179: the relationships of models.py lines 49-50 name no cascade,
\* so the flush of line 178 sets paper_id of the paper's association rows to
\* NULL, which the columns of lines 58 and 81 (nullable=False) refuse
delete_paper(d, id) ==
    IF id \notin PaperIds(d) THEN [db |-> d, returned |-> Bool(FALSE)]
    ELSE IF \/ \E r \in Range(d.paper_authors) : r.paper_id = id
            \/ \E r \in Range(d.paper_tags) : r.paper_id = id
         THEN [db |-> d, returned |-> Raised("IntegrityError")]
    ELSE [db |-> [d EXCEPT !.papers = [i \in DOMAIN d.papers \ {id} |-> d.papers[i]]],
          returned |-> Bool(TRUE)]

\* schemas.BatchTagResult
BatchTagResult(success_count, error_count, updated_paper_ids, errors) ==
    [success_count |-> success_count, error_count |-> error_count,
     updated_paper_ids |-> updated_paper_ids, errors |-> errors]
\* lines 449-460: for each paper of the list, a row for each tag not yet
\* linked to it
RECURSIVE add_tags_to_papers(_, _, _, _)
add_tags_to_papers(rows, paper_ids, tag_ids, i) ==
    IF i > Len(paper_ids) THEN rows
    ELSE add_tags_to_papers(add_tags(rows, paper_ids[i], tag_ids, 1), paper_ids, tag_ids, i + 1)
\* lines 422-483: the papers and the tags that exist are read with IN
\* queries, which hand out each id once
batch_add_tags_to_papers(d, paper_ids, tag_ids) ==
    LET existing_paper_ids == ascending(Range(paper_ids) \cap PaperIds(d), 1)
        existing_tag_ids == ascending(Range(tag_ids) \cap DOMAIN d.tags, 1)
    IN  IF existing_tag_ids = <<>>
        THEN [db |-> d,
              returned |-> BatchTagResult(0, Len(paper_ids), <<>>, <<"no valid tag">>)]
        ELSE [db |-> [d EXCEPT !.paper_tags =
                        add_tags_to_papers(@, existing_paper_ids, existing_tag_ids, 1)],
              returned |-> BatchTagResult(Len(existing_paper_ids), 0, existing_paper_ids, <<>>)]

(***************************************************************************)
(* Specification of the paper endpoints called one after another           *)
(* (SpecCrud): a store is drawn, then create_paper, update_paper,          *)
(* merge_paper, batch_add_tags_to_papers and delete_paper are called in    *)
(* any order, each call running to its end before the next.                *)
(***************************************************************************)
\* most calls made in a row
MaxCalls == 2
\* the variables of the filter compiler and of the search
filterVars == <<condition, db_condition, group, conditions, query_data, skip, limit, result>>
IdleFilter ==
    /\ condition = FilterCondition("", "", StrV(<<>>)) /\ db_condition = None
    /\ group = NoGroup /\ conditions = None
    /\ query_data = [root |-> NoGroup] /\ skip = 0 /\ limit = 0
    /\ result = Rows(<<>>)
\* the papers a drawn store may hold: one with a DOI, an author and two
\* tags, one with neither
LinkedShape ==
    [paper |-> PaperRow(StrV(<<"a">>), NULL, IntV(1), Doi(<<"1", "/", "a">>),
                        IntV(0), NULL, NULL, NULL),
     author_ids |-> {1}, tag_ids |-> {1, 2}]
BareShape ==
    [paper |-> PaperRow(StrV(<<"b">>), NULL, IntV(0), NULL, IntV(0), NULL, NULL, NULL),
     author_ids |-> {}, tag_ids |-> {}]
CrudStores == {Store(<<>>), Store(<<BareShape>>), Store(<<LinkedShape, BareShape>>)}
\* the id lists drawn: empty, without and with a repeated id, and one that
\* names an author or a tag that does not exist
IdLists == {<<>>, <<2, 1>>, <<1, 1, 2>>, <<3>>}
\* the bodies of POST /papers/ drawn
CreateDrafts ==
    {PaperCreate(StrV(<<"c">>), NULL, IntV(1), doi, IntV(0), NULL, NULL, NULL,
                 ListV(authors), ListV(tags)) :
        doi \in {NULL, StrV(<<>>), Doi(<<"1", "/", "a">>), Doi(<<"2", "/", "b">>)},
        authors \in IdLists, tags \in IdLists}
\* the bodies of PUT /papers/{id} drawn
UpdateDrafts ==
    {PaperUpdate({"author_ids"}, [author_ids |-> ListV(ids)]) : ids \in IdLists}
    \cup {PaperUpdate({"tag_ids"}, [tag_ids |-> ListV(ids)]) : ids \in IdLists}
    \cup {PaperUpdate({"doi"}, [doi |-> doi]) : doi \in {StrV(<<>>), Doi(<<"1", "/", "a">>)}}
    \cup {PaperUpdate({"title"}, [title |-> StrV(<<"c">>)])}
\* the merges drawn: a draft whose lists repeat an id, under each mode
MergeDraft ==
    PaperCreate(StrV(<<"c">>), NULL, IntV(1), NULL, IntV(0), NULL, NULL, NULL,
                ListV(<<1, 1, 2>>), ListV(<<2, 2>>))
MergeCalls ==
    {[mode |-> "overwrite", fields |-> NULL],
     [mode |-> "merge_fields", fields |-> ListV(<<"tag_ids">>)],
     [mode |-> "keep_old", fields |-> NULL]}
\* the ids a call may name: the papers of the largest store and one more
CallIds == 1..3

InitCrud ==
    /\ pc = "serving"
    /\ db \in CrudStores
    /\ request = None /\ before = None /\ response = None /\ steps = 0
    /\ IdleFilter /\ IdleJoin /\ IdleText /\ IdleRelated /\ IdleMerge
    /\ IdleImport /\ IdleRace

\* POST /papers/
CreatePaper ==
    /\ pc = "serving" /\ steps < MaxCalls
    /\ \E paper \in CreateDrafts :
        LET r == create_paper_endpoint(db, paper)
        IN  /\ request' = [name |-> "create_paper", paper |-> paper]
            /\ db' = r.db
            /\ response' = [returned |-> r.returned, status |-> r.status, detail |-> r.detail]
    /\ before' = db /\ steps' = steps + 1
    /\ UNCHANGED <<pc, filterVars, joinVars, textVars, relatedVars, mergeVars>>
    /\ UNCHANGED <<importVars, raceVars>>
\* PUT /papers/{paper_id}
UpdatePaper ==
    /\ pc = "serving" /\ steps < MaxCalls
    /\ \E id \in CallIds, paper \in UpdateDrafts :
        LET r == update_paper(db, id, paper)
        IN  /\ request' = [name |-> "update_paper", paper_id |-> id, paper |-> paper]
            /\ db' = r.db
            /\ response' = [returned |-> r.returned]
    /\ before' = db /\ steps' = steps + 1
    /\ UNCHANGED <<pc, filterVars, joinVars, textVars, relatedVars, mergeVars>>
    /\ UNCHANGED <<importVars, raceVars>>
\* a merge of a draft into an existing paper
MergeIntoPaper ==
    /\ pc = "serving" /\ steps < MaxCalls
    /\ \E id \in CallIds, c \in MergeCalls :
        LET r == merge_paper(db, id, MergeDraft, c.mode, c.fields)
        IN  /\ request' = [name |-> "merge_paper", paper_id |-> id, paper |-> MergeDraft,
                           mode |-> c.mode, fields |-> c.fields]
            /\ db' = r.db
            /\ response' = [returned |-> r.returned]
    /\ before' = db /\ steps' = steps + 1
    /\ UNCHANGED <<pc, filterVars, joinVars, textVars, relatedVars, mergeVars>>
    /\ UNCHANGED <<importVars, raceVars>>
\* the batch tag endpoint
BatchAddTagsToPapers ==
    /\ pc = "serving" /\ steps < MaxCalls
    /\ \E paper_ids \in IdLists, tag_ids \in IdLists :
        LET r == batch_add_tags_to_papers(db, paper_ids, tag_ids)
        IN  /\ request' = [name |-> "batch_add_tags_to_papers", paper_ids |-> paper_ids,
                           tag_ids |-> tag_ids]
            /\ db' = r.db
            /\ response' = [returned |-> r.returned]
    /\ before' = db /\ steps' = steps + 1
    /\ UNCHANGED <<pc, filterVars, joinVars, textVars, relatedVars, mergeVars>>
    /\ UNCHANGED <<importVars, raceVars>>
\* DELETE /papers/{paper_id}
DeletePaper ==
    /\ pc = "serving" /\ steps < MaxCalls
    /\ \E id \in CallIds :
        LET r == delete_paper(db, id)
        IN  /\ request' = [name |-> "delete_paper", paper_id |-> id]
            /\ db' = r.db
            /\ response' = [returned |-> r.returned]
    /\ before' = db /\ steps' = steps + 1
    /\ UNCHANGED <<pc, filterVars, joinVars, textVars, relatedVars, mergeVars>>
    /\ UNCHANGED <<importVars, raceVars>>

NextCrud == CreatePaper \/ UpdatePaper \/ MergeIntoPaper \/ BatchAddTagsToPapers \/ DeletePaper
SpecCrud == InitCrud /\ [][NextCrud]_vars

(***************************************************************************)
(* excel_import: preview_file, import_file and import_file_with_config     *)
(***************************************************************************)
\* an uploaded file: its name's extension and the rows pandas reads from it.
\* A row holds the cells of the title, DOI, year and authors columns; an
\* empty cell is NULL (NaN)
File(ext, rows) == [ext |-> ext, rows |-> rows]
Cells(title, doi, year, authors) ==
    [title |-> title, doi |-> doi, year |-> year, authors |-> authors]
\* lines 20-29, 243-252 and 489-498: the extensions that are read
parses(file) == file.ext \in {"xlsx", "xls", "csv", "tsv"}
\* schemas.ExcelImportResult
ExcelImportResult(total_rows, successful_imports, failed_imports, errors, imported_papers) ==
    [total_rows |-> total_rows, successful_imports |-> successful_imports,
     failed_imports |-> failed_imports, errors |-> errors,
     imported_papers |-> imported_papers]
\* an entry of errors: "行 {row}: {message}", row 0 for the entry of a call
\* that failed as a whole
RowError(row, message) == [row |-> row, message |-> message]

\* lines 319-323
clean_string(value) ==
    IF value = NULL THEN NULL
    ELSE IF strip(str(value)) = <<>> THEN NULL
    ELSE StrV(strip(str(value)))
\* str.split(';')
RECURSIVE split_on(_, _, _)
split_on(s, sep, word) ==
    IF s = <<>> THEN <<word>>
    ELSE IF Head(s) = sep THEN <<word>> \o split_on(Tail(s), sep, <<>>)
    ELSE split_on(Tail(s), sep, Append(word, Head(s)))
\* the words of a list that are not empty once stripped
RECURSIVE stripped_words(_)
stripped_words(words) ==
    IF words = <<>> THEN <<>>
    ELSE (IF strip(Head(words)) = <<>> THEN <<>> ELSE <<strip(Head(words))>>)
         \o stripped_words(Tail(words))
\* lines 325-337
parse_authors(authors_str) == stripped_words(split_on(authors_str, ";", <<>>))
\* lines 364-378: the author of that name, added to the table and
\* committed if there is none
get_or_create_author(d, author_name) ==
    IF \E i \in DOMAIN d.authors : d.authors[i] = author_name
    THEN [db |-> d,
          id |-> CHOOSE i \in DOMAIN d.authors :
                    /\ d.authors[i] = author_name
                    /\ \A j \in DOMAIN d.authors : d.authors[j] = author_name => i <= j]
    ELSE [db |-> [d EXCEPT !.authors = Append(@, author_name)], id |-> Len(d.authors) + 1]
\* lines 457-466 and 203-213
RECURSIVE authors_of_row(_, _, _)
authors_of_row(d, names, ids) ==
    IF names = <<>> THEN [db |-> d, author_ids |-> ids]
    ELSE LET a == get_or_create_author(d, Head(names))
         IN  authors_of_row(a.db, Tail(names), Append(ids, a.id))
\* lines 396-483 (and 146-230 under the default mapping): the PaperCreate
\* fields of a row, or the reason why it has none
map_excel_row_to_paper(row, d) ==
    LET title == clean_string(row.title)
        doi == clean_string(row.doi)
        publication_year == IF row.year = NULL THEN NULL ELSE int(row.year)
        authors_str == clean_string(row.authors)
        authors ==
            IF authors_str = NULL THEN [db |-> d, author_ids |-> <<>>]
            ELSE authors_of_row(d, parse_authors(authors_str.v), <<>>)
    IN  IF title = NULL
        THEN [db |-> d, paper_data |-> None, errors |-> <<"title is empty">>]
        ELSE IF is_raised(publication_year)
             THEN [db |-> d, paper_data |-> None, errors |-> <<"error in the row">>]
        ELSE IF ~truthy(publication_year)
             THEN [db |-> d, paper_data |-> None, errors |-> <<"no publication year">>]
        ELSE [db |-> authors.db,
              paper_data |-> PaperCreate(title, NULL, publication_year, doi, IntV(0), NULL,
                                         ListV(<<>>), NULL, ListV(authors.author_ids),
                                         ListV(<<>>)),
              errors |-> <<>>]

\* the only element of a set of one element
the(S) == CHOOSE x \in S : TRUE
\* lines 516-542 and 268-296: row i once it is mapped (m): the DOI and the
\* title are looked up, then the paper is created; the entries of errors
\* carry the row number i
import_mapped_row(m, i, acc) ==
    LET paper == m.paper_data
        failed(errors) ==
            [acc EXCEPT !.failed_imports = @ + 1, !.errors = @ \o errors]
    IN  IF paper = None
        THEN [db |-> m.db,
              result |-> failed([e \in DOMAIN m.errors |-> RowError(i, m.errors[e])])]
        ELSE IF truthy(paper.doi) /\ \E p \in PaperIds(m.db) : m.db.papers[p].doi = paper.doi
             THEN [db |-> m.db, result |-> failed(<<RowError(i, "DOI exists")>>)]
        ELSE IF \E p \in PaperIds(m.db) : m.db.papers[p].title = paper.title
             THEN [db |-> m.db, result |-> failed(<<RowError(i, "title exists")>>)]
        ELSE the({IF is_raised(r.returned)
                  THEN [db |-> r.db, result |-> failed(<<RowError(i, r.returned.v)>>)]
                  ELSE [db |-> r.db,
                        result |-> [acc EXCEPT !.successful_imports = @ + 1,
                                               !.imported_papers = Append(@, r.returned)]] :
                    r \in {create_paper(m.db, paper)}})
\* lines 507-542 and 261-296: the body of the loop for row i, the row of
\* index i - 1
import_row(d, row, i, acc) ==
    the({import_mapped_row(m, i, acc) : m \in {map_excel_row_to_paper(row, d)}})
\* lines 506-542 and 260-296 with the loop left at the first row that fails
RECURSIVE import_rows_stop_at_failure(_, _, _, _)
import_rows_stop_at_failure(d, rows, i, acc) ==
    IF i > Len(rows) THEN [db |-> d, result |-> acc]
    ELSE the({IF s.result.failed_imports > acc.failed_imports THEN s
              ELSE import_rows_stop_at_failure(s.db, rows, i + 1, s.result) :
                s \in {import_row(d, rows[i], i, acc)}})
\* lines 506-542 and 260-296: the rows in file order, each handled on the
\* store and the counts that the row before it left (s)
RECURSIVE import_rows(_, _, _, _)
import_rows(d, rows, i, acc) ==
    IF i > Len(rows) THEN [db |-> d, result |-> acc]
    ELSE the({import_rows(s.db, rows, i + 1, s.result) :
                s \in {import_row(d, rows[i], i, acc)}})
\* lines 552-559 and 310-317: the result of a call that failed as a whole
failed_as_a_whole == ExcelImportResult(0, 0, 0, <<RowError(0, "import failed")>>, <<>>)
\* lines 485-559
import_file(d, file) ==
    IF ~parses(file) THEN [db |-> d, result |-> failed_as_a_whole]
    ELSE import_rows(d, file.rows, 1, ExcelImportResult(Len(file.rows), 0, 0, <<>>, <<>>))

\* lines 16-83: the file is registered under a new id once it has been read
preview_file(files, file, file_id) ==
    IF ~parses(file) THEN [TEMP_FILES |-> files, returned |-> Raised("Exception")]
    ELSE [TEMP_FILES |-> [i \in DOMAIN files \cup {file_id} |->
                            IF i = file_id THEN file ELSE files[i]],
          returned |-> [k |-> "preview", total_rows |-> Len(file.rows), file_id |-> file_id]]
\* lines 232-317 with the registry entry kept after the rows are processed
import_file_with_config_keeps_entry(files, d, preview_file_id) ==
    IF preview_file_id \notin DOMAIN files
    THEN [TEMP_FILES |-> files, db |-> d, result |-> failed_as_a_whole]
    ELSE IF ~parses(files[preview_file_id])
         THEN [TEMP_FILES |-> files, db |-> d, result |-> failed_as_a_whole]
    ELSE LET rows == files[preview_file_id].rows
         IN  the({[TEMP_FILES |-> files, db |-> r.db, result |-> r.result] :
                    r \in {import_rows(d, rows, 1,
                                       ExcelImportResult(Len(rows), 0, 0, <<>>, <<>>))}})
\* lines 232-317
import_file_with_config(files, d, preview_file_id) ==
    IF preview_file_id \notin DOMAIN files
    THEN [TEMP_FILES |-> files, db |-> d, result |-> failed_as_a_whole]
    ELSE IF ~parses(files[preview_file_id])
         THEN [TEMP_FILES |-> files, db |-> d, result |-> failed_as_a_whole]
    ELSE LET rows == files[preview_file_id].rows
         IN  the({[TEMP_FILES |-> [i \in DOMAIN files \ {preview_file_id} |-> files[i]],
                   db |-> r.db, result |-> r.result] :
                    r \in {import_rows(d, rows, 1,
                                       ExcelImportResult(Len(rows), 0, 0, <<>>, <<>>))}})

(***************************************************************************)
(* Specification of the import endpoints (SpecImport): a store is drawn,   *)
(* then files are previewed and imported, each call running to its end     *)
(* before the next.                                                        *)
(***************************************************************************)
\* most files previewed
MaxUploads == 2
\* the rows drawn: two rows with the same new DOI, the first with an author
\* that exists and one that does not; a row without a title; a row without
\* a year; a row with the DOI and a row with the title of a stored paper;
\* a row without a DOI
RowFirst ==
    Cells(StrV(<<"c">>), StrV(<<"2", "/", "b">>), IntV(1), StrV(<<"a", ";", " ", "c">>))
RowSecond == Cells(StrV(<<"d">>), StrV(<<"2", "/", "b">>), IntV(1), NULL)
RowBlankTitle == Cells(StrV(<<" ">>), NULL, IntV(1), NULL)
RowNoYear == Cells(StrV(<<"e">>), NULL, NULL, NULL)
RowStoredDoi == Cells(StrV(<<"e">>), StrV(<<"1", "/", "a">>), IntV(1), NULL)
RowStoredTitle == Cells(StrV(<<"b">>), NULL, IntV(1), NULL)
RowNoDoi == Cells(StrV(<<"e">>), NULL, IntV(2), StrV(<<"b">>))
Files ==
    {File("csv", <<RowFirst, RowSecond>>),
     File("xlsx", <<RowBlankTitle, RowFirst>>),
     File("csv", <<RowFirst, RowNoYear, RowNoDoi>>),
     File("tsv", <<>>),
     File("csv", <<RowStoredDoi, RowStoredTitle, RowNoDoi>>),
     File("pdf", <<RowFirst>>)}
\* the file ids a call may name: those handed out and one never handed out
FileIds == 1..(MaxUploads + 1)

InitImport ==
    /\ pc = "serving"
    /\ db \in CrudStores
    /\ request = None /\ before = None /\ response = None /\ steps = 0
    /\ TEMP_FILES = <<>> /\ uuids = 0 /\ imports = <<>>
    /\ IdleFilter /\ IdleJoin /\ IdleText /\ IdleRelated /\ IdleMerge /\ IdleRace

\* the preview endpoint; uuid4 hands out an id never handed out before
PreviewFile ==
    /\ pc = "serving" /\ uuids < MaxUploads
    /\ \E file \in Files :
        \E r \in {preview_file(TEMP_FILES, file, uuids + 1)} :
            /\ request' = [name |-> "preview_file", file |-> file]
            /\ TEMP_FILES' = r.TEMP_FILES
            /\ uuids' = IF is_raised(r.returned) THEN uuids ELSE uuids + 1
            /\ response' = [returned |-> r.returned]
    /\ before' = db
    /\ UNCHANGED <<pc, db, steps, imports, filterVars, joinVars, textVars, relatedVars>>
    /\ UNCHANGED <<mergeVars, raceVars>>
\* the import endpoint that takes the id of a previewed file
ImportFileWithConfig ==
    /\ pc = "serving" /\ steps < MaxCalls
    /\ \E preview_file_id \in FileIds :
        \E r \in {import_file_with_config(TEMP_FILES, db, preview_file_id)} :
            /\ request' = [name |-> "import_file_with_config",
                           preview_file_id |-> preview_file_id,
                           file |-> IF preview_file_id \in DOMAIN TEMP_FILES
                                    THEN TEMP_FILES[preview_file_id] ELSE None]
            /\ TEMP_FILES' = r.TEMP_FILES
            /\ db' = r.db
            /\ response' = [returned |-> r.result]
            /\ imports' = Append(imports, [preview_file_id |-> preview_file_id,
                                           registered |-> DOMAIN TEMP_FILES,
                                           returned |-> r.result,
                                           added |-> PaperIds(r.db) \ PaperIds(db),
                                           left |-> DOMAIN r.TEMP_FILES])
    /\ before' = db /\ steps' = steps + 1
    /\ UNCHANGED <<pc, uuids, filterVars, joinVars, textVars, relatedVars, mergeVars, raceVars>>
\* the import endpoint that takes the file itself
ImportFile ==
    /\ pc = "serving" /\ steps < MaxCalls
    /\ \E file \in Files :
        \E r \in {import_file(db, file)} :
            /\ request' = [name |-> "import_file", file |-> file]
            /\ db' = r.db
            /\ response' = [returned |-> r.result]
    /\ before' = db /\ steps' = steps + 1
    /\ UNCHANGED <<pc, TEMP_FILES, uuids, imports>>
    /\ UNCHANGED <<filterVars, joinVars, textVars, relatedVars, mergeVars, raceVars>>

NextImport == PreviewFile \/ ImportFileWithConfig \/ ImportFile
SpecImport == InitImport /\ [][NextImport]_vars

(***************************************************************************)
(* Specification of two concurrent update_paper requests (SpecRace): two   *)
(* requests set the tag list, or the author list, of paper 1, each in its  *)
(* own session and transaction.  The statements of update_paper are the    *)
(* steps; the store runs them READ COMMITTED: a statement sees the rows     *)
(* committed when it starts and the rows its own transaction wrote, and a  *)
(* DELETE waits for the transaction that already deleted the same rows.    *)
(***************************************************************************)
Requests == 1..2
\* the other request
other(t) == 3 - t
\* the association table both requests write, and the id a row links
table(d) == IF relation = "tag" THEN d.paper_tags ELSE d.paper_authors
linked_id(r) == IF relation = "tag" THEN r.tag_id ELSE r.author_id
\* lines 146-150 and 165: the row added for the id at position i of the list
new_row(id, ids, i) ==
    IF relation = "tag" THEN [paper_id |-> id, tag_id |-> ids[i]]
    ELSE [paper_id |-> id, author_id |-> ids[i], author_order |-> i]
\* the positions of the committed rows of a paper
committed_rows(d, id) == {p \in DOMAIN table(d) : table(d)[p].paper_id = id}
\* the rows of a table but those at the positions given
RECURSIVE without_positions(_, _, _)
without_positions(rows, positions, p) ==
    IF p > Len(rows) THEN <<>>
    ELSE (IF p \in positions THEN <<>> ELSE <<rows[p]>>)
         \o without_positions(rows, positions, p + 1)
\* lines 141-143 and 160-162: the query finds a committed row that the
\* transaction has not deleted, or a row the transaction added
existing_relation(d, t, id, linked) ==
    \/ \E p \in committed_rows(d, id) \ tx[t].deleted : linked_id(table(d)[p]) = linked
    \/ \E r \in Range(tx[t].added) : r.paper_id = id /\ linked_id(r) = linked
\* the position of a request after its DELETE: the loop, or the commit when
\* the list is empty
after_delete(t) == IF tx[t].ids = <<>> THEN "commit" ELSE "insert"

\* the stores drawn: paper 1 without association rows, and with them
RaceStores == {Store(<<BareShape>>), Store(<<LinkedShape>>)}
\* the lists the two requests set
RaceLists == {<<>>, <<1>>, <<1, 2>>, <<2, 1>>}
Request(ids) ==
    [paper_id |-> 1, ids |-> ids, at |-> "delete", i |-> 1, deleted |-> {}, added |-> <<>>]

InitRace ==
    /\ pc = "racing"
    /\ db \in RaceStores
    /\ relation \in {"tag", "author"}
    /\ \E first \in RaceLists, second \in RaceLists :
        tx = [t \in Requests |-> IF t = 1 THEN Request(first) ELSE Request(second)]
    /\ IdleFilter /\ IdleJoin /\ IdleText /\ IdleRelated /\ IdleMerge
    /\ IdleCall /\ IdleImport

\* lines 137 and 156: the DELETE of the paper's rows; it waits when the
\* other transaction has deleted them and has not committed
DeleteRelations(t) ==
    /\ tx[t].at = "delete"
    /\ IF tx[other(t)].deleted # {} /\ tx[other(t)].at # "done"
       THEN tx' = [tx EXCEPT ![t].at = "waiting"]
       ELSE tx' = [tx EXCEPT ![t].deleted = committed_rows(db, tx[t].paper_id),
                             ![t].at = after_delete(t)]
    /\ UNCHANGED <<pc, db, relation, filterVars, joinVars, textVars, relatedVars, mergeVars>>
    /\ UNCHANGED <<callVars, importVars>>
\* the DELETE goes on once the other transaction has committed: the rows it
\* waited for are gone, and the rows committed since are not in its snapshot
ResumeDelete(t) ==
    /\ tx[t].at = "waiting" /\ tx[other(t)].at = "done"
    /\ tx' = [tx EXCEPT ![t].at = after_delete(t)]
    /\ UNCHANGED <<pc, db, relation, filterVars, joinVars, textVars, relatedVars, mergeVars>>
    /\ UNCHANGED <<callVars, importVars>>
\* lines 139-151 and 158-166: one turn of the loop, the query and the add
AddRelation(t) ==
    /\ tx[t].at = "insert"
    /\ LET i == tx[t].i
           ids == tx[t].ids
           added == IF existing_relation(db, t, tx[t].paper_id, ids[i]) THEN tx[t].added
                    ELSE Append(tx[t].added, new_row(tx[t].paper_id, ids, i))
       IN  tx' = [tx EXCEPT ![t].added = added, ![t].i = i + 1,
                            ![t].at = IF i = Len(ids) THEN "commit" ELSE "insert"]
    /\ UNCHANGED <<pc, db, relation, filterVars, joinVars, textVars, relatedVars, mergeVars>>
    /\ UNCHANGED <<callVars, importVars>>
\* line 168
Commit(t) ==
    /\ tx[t].at = "commit"
    /\ LET rows == without_positions(table(db), tx[t].deleted, 1) \o tx[t].added
       IN  db' = IF relation = "tag" THEN [db EXCEPT !.paper_tags = rows]
                 ELSE [db EXCEPT !.paper_authors = rows]
    /\ tx' = [tx EXCEPT ![t].at = "done", ![t].deleted = {}, ![t].added = <<>>]
    /\ UNCHANGED <<pc, relation, filterVars, joinVars, textVars, relatedVars, mergeVars>>
    /\ UNCHANGED <<callVars, importVars>>

NextRace ==
    \E t \in Requests : DeleteRelations(t) \/ ResumeDelete(t) \/ AddRelation(t) \/ Commit(t)
SpecRace == InitRace /\ [][NextRace]_vars

(***************************************************************************)
(* Properties of build_single_condition (SpecCond)                         *)
(***************************************************************************)
NumericFields == {"year_from", "year_to", "min_citations", "max_citations", "venue_id"}
TextFields == {"title_keyword", "abstract_keyword", "author_name"}
LegalOperators(f) ==
    CASE f \in {"year_from", "min_citations"} -> {"greater_than", "greater_equal", "equals"}
      [] f \in {"year_to", "max_citations"} -> {"less_than", "less_equal", "equals"}
      [] f = "venue_id" -> {"equals"}
OnlyWhitespace(s) == \A i \in DOMAIN s : IsSpace(s[i])
\* s contains v as a literal substring, ignoring case
ContainsIgnoringCase(s, v) ==
    \E i \in 0..(Len(s) - Len(v)) : \A j \in 1..Len(v) : Lower(s[i + j]) = Lower(v[j])
\* a row whose only known column is the one field f is about, holding text s
RowWithText(f, s) ==
    [title |-> IF f = "title_keyword" THEN StrV(s) ELSE StrV(<<>>),
     abstract |-> IF f = "abstract_keyword" THEN StrV(s) ELSE NULL,
     publication_year |-> IntV(0), citation_count |-> IntV(0), venue_id |-> NULL,
     author_name |-> IF f = "author_name" THEN StrV(s) ELSE NULL,
     tag_name |-> NULL]

\* C7: on a numeric field build_single_condition returns a predicate iff the
\* operator is legal for the field and the value coerces to an integer, the
\* integer 0 included; otherwise it returns None.
C7_NumericPredicateIffLegalAndCoercible ==
    (pc = "done" /\ condition.field \in NumericFields) =>
        ((db_condition # None) <=>
            (/\ condition.operator \in LegalOperators(condition.field)
             /\ int(condition.value).t = "int"))

\* C8: a condition whose value is the empty text or only whitespace is
\* skipped (None), whatever its field and operator.
C8_BlankValueSkipped ==
    (pc = "done" /\ condition.value.t = "str" /\ OnlyWhitespace(condition.value.v)) =>
        db_condition = None
C8_Witness ==
    /\ pc = "done"
    /\ condition = FilterCondition("title_keyword", "contains", StrV(<<" ", " ">>))
    /\ db_condition = None

\* C9: on a text field and a non-blank text v, contains matches exactly the
\* rows whose attribute contains v as a literal substring ignoring case (also
\* when v holds % or _), and equals exactly the rows whose attribute is v.
C9_TextContainsLiteralEqualsExact ==
    (/\ pc = "done"
     /\ condition.field \in TextFields
     /\ condition.operator \in {"contains", "equals"}
     /\ condition.value.t = "str" /\ ~OnlyWhitespace(condition.value.v)) =>
        /\ db_condition # None
        /\ \A s \in Texts(MaxLen) :
              (eval(db_condition, RowWithText(condition.field, s)) = "T") <=>
                  IF condition.operator = "contains"
                  THEN ContainsIgnoringCase(s, condition.value.v)
                  ELSE s = condition.value.v

(***************************************************************************)
(* Properties of build_query_conditions (SpecCompile)                      *)
(***************************************************************************)
is_predicate(p) == p # None /\ ~is_raise(p)
\* some condition of the tree, at any depth, yields a predicate
RECURSIVE contributes(_)
contributes(g) ==
    \/ \E i \in DOMAIN g.conditions : is_predicate(build_single_condition(g.conditions[i]))
    \/ \E i \in DOMAIN g.groups : contributes(g.groups[i])
\* s without its i-th element
Without(s, i) == SubSeq(s, 1, i - 1) \o SubSeq(s, i + 1, Len(s))

\* rows on which CondA, CondB and CondC take every combination of truth values
SampleRows ==
    {[title |-> StrV(t), abstract |-> NULL, publication_year |-> IntV(y),
      citation_count |-> IntV(0), venue_id |-> IntV(1), author_name |-> StrV(n),
      tag_name |-> NULL] :
        t \in {<<"A">>, <<"b">>}, y \in {0, 1}, n \in {<<"a">>, <<"b">>}}
holdsA(row) == ContainsIgnoringCase(row.title.v, <<"a">>)
holdsB(row) == row.publication_year.v >= 1
holdsC(row) == row.author_name.v = <<"b">>

\* what a group means: its own operator over the conditions that yield a
\* predicate and over the subgroups that contribute one
RECURSIVE group_holds(_, _)
group_holds(g, row) ==
    LET parts ==
            {eval(build_single_condition(g.conditions[i]), row) = "T" :
                i \in {j \in DOMAIN g.conditions :
                          is_predicate(build_single_condition(g.conditions[j]))}}
            \cup {group_holds(g.groups[i], row) :
                    i \in {j \in DOMAIN g.groups : contributes(g.groups[j])}}
    IN  IF g.operator = "AND" THEN FALSE \notin parts ELSE TRUE \in parts

\* C4: a group in which no condition at any depth yields a predicate compiles
\* to None whatever its operator, and such a subgroup adds nothing to its parent.
C4_AllSkippedGroupIsNone ==
    pc = "done" =>
        /\ ~contributes(group) => conditions = None
        /\ \A i \in DOMAIN group.groups :
              ~contributes(group.groups[i]) =>
                  conditions = build_query_conditions(
                      [group EXCEPT !.groups = Without(group.groups, i)])
C4_Witness ==
    /\ pc = "done"
    /\ group = FilterGroup("AND", <<CondBadInt>>,
                           <<FilterGroup("OR", <<CondBlank, CondBadType>>, <<>>)>>)
    /\ conditions = None

\* C5: nested groups keep their own operator at every depth: the compiled
\* predicate holds of a row iff the tree does, each group under its own
\* operator; AND([A], [OR(B, C)]) holds iff A and (B or C).
C5_NestedGroupsKeepOperator ==
    (pc = "done" /\ contributes(group)) =>
        /\ is_predicate(conditions)
        /\ \A row \in SampleRows :
              (eval(conditions, row) = "T") <=> group_holds(group, row)
        /\ group = FilterGroup("AND", <<CondA>>, <<FilterGroup("OR", <<CondB, CondC>>, <<>>)>>)
              => \A row \in SampleRows :
                    (eval(conditions, row) = "T") <=>
                        (holdsA(row) /\ (holdsB(row) \/ holdsC(row)))
C5_Witness ==
    /\ pc = "done"
    /\ group = FilterGroup("AND", <<CondA>>, <<FilterGroup("OR", <<CondB, CondC>>, <<>>)>>)
    /\ conditions =
          And(<<Ilike("Paper.title", <<"%", "a", "%">>),
                Or(<<Ge("Paper.publication_year", IntV(1)), Eq("Author.name", StrV(<<"b">>))>>)>>)

\* the value fails the coercion or the type test its field and operator apply
malformed(c) ==
    \/ c.field \in NumericFields /\ int(c.value).t = "raise"
    \/ c.field = "tags" /\ c.operator = "in" /\ c.value.t # "list"

surviving(g) ==
    SelectSeq([i \in DOMAIN g.conditions |-> build_single_condition(g.conditions[i])]
              \o [i \in DOMAIN g.groups |-> build_query_conditions(g.groups[i])],
              is_kept)

\* C10: operator 'AND' combines the surviving predicates by conjunction, any
\* other string ('OR', 'and', '') by disjunction, and none raises.
C10_AndElseOr ==
    (pc = "done" /\ contributes(group)) =>
        /\ ~is_raise(conditions)
        /\ conditions.args = surviving(group)
        /\ conditions.k = (IF group.operator = "AND" THEN "and" ELSE "or")
        /\ \A row \in SampleRows :
              (eval(conditions, row) = "T") <=>
                  IF group.operator = "AND"
                  THEN \A i \in DOMAIN conditions.args : eval(conditions.args[i], row) = "T"
                  ELSE \E i \in DOMAIN conditions.args : eval(conditions.args[i], row) = "T"
C10_Witness ==
    /\ pc = "done"
    /\ group = FilterGroup("and", <<CondB, CondC>>, <<>>)
    /\ conditions =
          Or(<<Ge("Paper.publication_year", IntV(1)), Eq("Author.name", StrV(<<"b">>))>>)

(***************************************************************************)
(* Properties of search_papers_complex (Spec)                              *)
(***************************************************************************)
\* a condition matches a paper by itself: on the paper's own columns, or on
\* at least one of its authors, or on at least one of its tags
matches(c, d, id) ==
    \E a \in author_names_of(d, id) \cup {NULL}, t \in tag_names_of(d, id) \cup {NULL} :
        eval(build_single_condition(c), Row(d.papers[id], a, t)) = "T"
\* the root holds exactly two conditions, both valid, and no subgroup
TwoValidConditions(root) ==
    /\ Len(root.conditions) = 2 /\ root.groups = <<>>
    /\ \A i \in 1..2 : is_predicate(build_single_condition(root.conditions[i]))
\* the page holds every row of the result
WholeResult == skip = 0 /\ limit >= Len(db.papers)
Returned == Range(result.ids)

\* C1: under OR with two valid conditions the search returns a paper iff
\* one of the conditions matches it by itself, papers without authors or
\* without tags included.
C1_OrReturnsEitherMatch ==
    (/\ pc = "done" /\ WholeResult
     /\ query_data.root.operator = "OR" /\ TwoValidConditions(query_data.root)) =>
        \A id \in PaperIds(db) :
            id \in Returned <=>
                (\/ matches(query_data.root.conditions[1], db, id)
                 \/ matches(query_data.root.conditions[2], db, id))

\* C2: under AND with two valid conditions the search returns a paper iff
\* each condition matches it by itself, also when both are on the same relation.
C2_AndReturnsBothMatch ==
    (/\ pc = "done" /\ WholeResult
     /\ query_data.root.operator = "AND" /\ TwoValidConditions(query_data.root)) =>
        \A id \in PaperIds(db) :
            id \in Returned <=>
                (/\ matches(query_data.root.conditions[1], db, id)
                 /\ matches(query_data.root.conditions[2], db, id))

\* C3: when the root compiles to None the search returns what the unfiltered
\* listing returns for the same skip and limit, also when the skipped
\* conditions name author_name or tags.
C3_NoFilterIsUnfilteredListing ==
    (pc = "done" /\ build_query_conditions(query_data.root) = None) =>
        result \in get_papers(db, skip, limit)

(***************************************************************************)
(* Properties of the join analysis (SpecJoin)                              *)
(***************************************************************************)
\* every condition of a tree: its direct ones and those of every group below
RECURSIVE all_conditions(_)
all_conditions(g) ==
    Range(g.conditions) \cup UNION {all_conditions(g.groups[i]) : i \in DOMAIN g.groups}
names_field(g, f) == \E c \in all_conditions(g) : c.field = f
\* the group has no direct condition on author_name
no_direct_author(g) == \A i \in DOMAIN g.conditions : g.conditions[i].field # "author_name"

\* C11: check_needs_author_join(tree) is true iff some condition at some
\* depth of the tree, under any operator, has field author_name, and
\* check_needs_tag_join(tree) is true iff some condition at some depth has
\* field tags.
C11_JoinNeededIffFieldAtAnyDepth ==
    /\ pc \in {"author_checked", "done"} => (needs_author <=> names_field(group, "author_name"))
    /\ pc = "done" => (needs_tag <=> names_field(group, "tags"))
\* the analysis has run on a tree whose only author_name condition is in a
\* subgroup nested three groups below the root, and it answered true
C11_Witness ==
    /\ pc = "done" /\ needs_author
    /\ no_direct_author(group) /\ Len(group.groups) = 1
    /\ no_direct_author(group.groups[1]) /\ Len(group.groups[1].groups) = 1
    /\ no_direct_author(group.groups[1].groups[1])
    /\ Len(group.groups[1].groups[1].groups) = 1
    /\ ~no_direct_author(group.groups[1].groups[1].groups[1])
    /\ group.groups[1].groups[1].groups[1].groups = <<>>

(***************************************************************************)
(* Properties of search_papers_complex (Spec), continued                   *)
(***************************************************************************)
\* the joined rows of a paper that the compiled filter of the query keeps
rows_kept(d, q, id) ==
    {row \in joined_rows(d, id, check_needs_author_join(q.root), check_needs_tag_join(q.root)) :
        build_query_conditions(q.root) = None \/ eval(build_query_conditions(q.root), row) = "T"}

\* C12: the result of search_papers_complex contains each record at most
\* once, for every filter tree, also when several authors or tags of a
\* record satisfy the joined conditions.
C12_EachRecordAtMostOnce ==
    pc = "done" /\ result.k = "rows" =>
        \A i, j \in DOMAIN result.ids : result.ids[i] = result.ids[j] => i = j
\* a search has returned a record of which several joined rows passed the
\* filter
C12_Witness ==
    /\ pc = "done" /\ result.k = "rows"
    /\ \E i \in DOMAIN result.ids : Cardinality(rows_kept(db, query_data, result.ids[i])) >= 2

(***************************************************************************)
(* Properties of search_related_papers (SpecRelated, SpecRelatedTwice)     *)
(***************************************************************************)
has_doi(data) == data.doi # NULL /\ ~falsy(data.doi)
\* the stored DOI of a paper equals the candidate's but for letter case
same_doi_ignoring_case(d, id, data) ==
    d.papers[id].doi # NULL /\ lower(d.papers[id].doi.v) = lower(data.doi.v)

\* C13: if the candidate has a DOI and a stored record's DOI equals it
\* ignoring letter case, search_related_papers returns a list of exactly one
\* record, a record with that DOI, from the DOI return statement, without
\* matching titles.
C13_DoiMatchIsAuthoritative ==
    pc = "done" /\ has_doi(paper_data)
      /\ (\E id \in PaperIds(db) : same_doi_ignoring_case(db, id, paper_data))
    => /\ path = "doi"
       /\ Len(result.ids) = 1
       /\ same_doi_ignoring_case(db, result.ids[1], paper_data)

\* C14: exact title matching normalizes the stored title as it normalizes
\* the candidate's: a stored record whose title has the same normalize_text
\* value as the candidate's title satisfies the exact-match predicate.
C14_ExactMatchNormalizesStoredTitle ==
    pc = "done" =>
        \A id \in PaperIds(db) :
            normalize_text(db.papers[id].title.v) = normalize_text(paper_data.title.v)
            => exact(db.papers[id].title.v, normalize_text(paper_data.title.v))

no_duplicates(ids) == \A i, j \in DOMAIN ids : ids[i] = ids[j] => i = j
\* the stored paper satisfies the exact or the fuzzy predicate for the candidate
title_matches(d, id, data) ==
    \/ exact(d.papers[id].title.v, normalize_text(data.title.v))
    \/ fuzzy(d.papers[id].title.v, normalize_text(data.title.v))

\* C16 as claimed: for every candidate and every limit >= 0 the search
\* returns at most limit records, none of them twice, on the DOI path, the
\* title path and the fallback path, and every record returned on the title
\* path satisfies the exact or the fuzzy predicate.
C16_AtMostLimitOnEveryPath ==
    pc = "done" =>
        /\ Len(result.ids) <= limit
        /\ no_duplicates(result.ids)
        /\ path = "title" =>
              \A i \in DOMAIN result.ids : title_matches(db, result.ids[i], paper_data)
\* C16 as amended: for every candidate and every limit >= 0 the search never
\* returns a record twice; it returns at most limit records on the title
\* path and on the fallback path and exactly one record on the DOI path,
\* whatever the limit; every record returned on the title path satisfies the
\* exact or the fuzzy predicate.
C16_AtMostLimitButOnDoiPath ==
    pc = "done" =>
        /\ path = "doi" => Len(result.ids) = 1
        /\ path \in {"title", "fallback"} => Len(result.ids) <= limit
        /\ no_duplicates(result.ids)
        /\ path = "title" =>
              \A i \in DOMAIN result.ids : title_matches(db, result.ids[i], paper_data)
\* the title path has returned as many records as the limit allows while
\* more stored records satisfy the predicate
C16_Witness ==
    /\ pc = "done" /\ path = "title" /\ limit >= 1 /\ Len(result.ids) = limit
    /\ Cardinality({id \in PaperIds(db) : title_matches(db, id, paper_data)}) > limit

\* no stored paper matches the candidate of the call, by DOI or by title
nothing_matches(d, call) ==
    /\ ~(has_doi(call.paper_data)
           /\ doi_matches(d, lower(strip(call.paper_data.doi.v))) # {})
    /\ \A id \in PaperIds(d) : ~title_matches(d, id, call.paper_data)
\* a call that matched nothing returned the fallback list
fallback_when_nothing_matches(d, call) ==
    nothing_matches(d, call) =>
        /\ call.path = "fallback"
        /\ Len(call.result.ids) <= call.limit
        /\ Range(call.result.ids) \subseteq PaperIds(d)

\* C17: a call for which no stored record matches by DOI or by title
\* returns the fallback list, up to limit existing records, and no call that
\* ended on a match path has the same return value as a call that ended on
\* the fallback path.
C17_FallbackDistinguishable ==
    /\ \A i \in DOMAIN calls : fallback_when_nothing_matches(db, calls[i])
    /\ \A i, j \in DOMAIN calls :
          calls[i].path \in {"doi", "title"} /\ calls[j].path = "fallback"
          => calls[i].result # calls[j].result

(***************************************************************************)
(* Properties of normalize_text (SpecText)                                 *)
(***************************************************************************)
\* C15: normalize_text is idempotent, and two texts that differ only in the
\* kind of whitespace used (space, U+00A0, U+202F) or in the length of their
\* whitespace runs have the same normalize_text value.
C15_NormalizeIdempotentWhitespaceBlind ==
    /\ pc \in {"normalized", "done"} => normalized[1] = normalized[2]
    /\ pc = "done" => normalized[3] = normalized[1]
\* normalize_text has been applied to a text holding a no-break space and a
\* longer whitespace run, to a different spelling of it, and to its own result
C15_Witness ==
    /\ pc = "done" /\ raw_title # respelled_title
    /\ \E i \in DOMAIN raw_title : raw_title[i] = NBSP
    /\ \E i \in 1..(Len(raw_title) - 2) :
          IsSpace(raw_title[i]) /\ IsSpace(raw_title[i + 1]) /\ IsSpace(raw_title[i + 2])
    /\ normalized[1] # <<>> /\ normalized[1] # raw_title

(***************************************************************************)
(* Properties of merge_paper (SpecMerge)                                   *)
(***************************************************************************)
\* the step of the call
merge_step == pc = "call" /\ pc' = "done"
\* the names in the field list
named == IF fields.t = "list" THEN Range(fields.v) ELSE {}
\* the association rows of a paper
rows_of(rows, id) == {r \in Range(rows) : r.paper_id = id}
\* the attribute of the PaperCreate that a column of the store takes
MutableFields ==
    {"title", "abstract", "publication_year", "doi", "citation_count", "venue_id",
     "keywords", "url"}

\* the call returned a Paper: the target exists and no exception was raised
succeeded == "k" \in DOMAIN returned /\ returned.k = "Paper"
\* the author ids of a paper, in the order of its rows
author_list(rows, id) ==
    LET mine == SelectSeq(rows, LAMBDA r : r.paper_id = id)
    IN  [i \in DOMAIN mine |-> mine[i].author_id]

C19_OverwriteReplacesEveryField ==
    pc = "done" /\ mode = "overwrite" /\ succeeded =>
        /\ \A f \in MutableFields : db.papers[paper_id][f] = new_data[f]
        /\ new_data.author_ids.t = "list" =>
              author_list(db.paper_authors, paper_id) = new_data.author_ids.v
        /\ new_data.tag_ids.t = "list" =>
              {r.tag_id : r \in rows_of(db.paper_tags, paper_id)} = Range(new_data.tag_ids.v)

\* the modes merge_paper knows
KnownModes == {"keep_old", "overwrite", "merge_fields"}
\* the field list is absent or empty
no_fields == fields.t = "null" \/ fields.v = <<>>

\* C20: for an existing target, merge_paper with mode keep_old, with an
\* unrecognised mode, or with mode merge_fields and an empty or absent field
\* list returns the existing record and changes no attribute of any record
\* and no author or tag association row.
C20_NoOpModesChangeNothing ==
    [][merge_step /\ paper_id \in PaperIds(db)
        /\ (mode = "keep_old" \/ mode \notin KnownModes \/ (mode = "merge_fields" /\ no_fields))
       => /\ db' = db
          /\ returned' = [k |-> "Paper", id |-> paper_id, row |-> db.papers[paper_id]]]_vars
\* merge_paper has returned an existing record under an unrecognised mode,
\* with a draft whose title and tag list differ from the record's
C20_Witness ==
    /\ pc = "done" /\ mode \notin KnownModes /\ succeeded
    /\ returned.row.title # new_data.title
    /\ rows_of(db.paper_tags, paper_id) # {}
    /\ new_data.tag_ids = ListV(<<>>)
(***************************************************************************)
(* Properties of the paper endpoints called one after another (SpecCrud)   *)
(***************************************************************************)
\* no two rows of an association table link the same paper to the same
\* author, or to the same tag
no_duplicate_pairs(d) ==
    /\ \A i, j \in DOMAIN d.paper_authors :
        /\ d.paper_authors[i].paper_id = d.paper_authors[j].paper_id
        /\ d.paper_authors[i].author_id = d.paper_authors[j].author_id
        => i = j
    /\ \A i, j \in DOMAIN d.paper_tags :
        /\ d.paper_tags[i].paper_id = d.paper_tags[j].paper_id
        /\ d.paper_tags[i].tag_id = d.paper_tags[j].tag_id
        => i = j
\* the call made last is a call of the function named
called(name) == steps > 0 /\ request.name = name
\* the call made last returned a paper
returned_paper == "k" \in DOMAIN response.returned /\ response.returned.k = "Paper"
\* a body of POST /papers/ that names only authors and tags that exist and
\* no DOI that a paper of the store holds
acceptable(d, paper) ==
    /\ ~check_doi_exists(d, paper.doi)
    /\ paper.doi # StrV(<<>>)
    /\ Range(paper.author_ids.v) \subseteq DOMAIN d.authors
    /\ Range(paper.tag_ids.v) \subseteq DOMAIN d.tags
tag_ids_of(d, id) == {r.tag_id : r \in rows_of(d.paper_tags, id)}
\* how many rows of an association table belong to a paper
count_rows(rows, id) == Cardinality({i \in DOMAIN rows : rows[i].paper_id = id})

\* C21: after any sequence of create_paper, update_paper, merge_paper and
\* batch_add_tags_to_papers calls no two association rows share a (paper,
\* tag) pair or a (paper, author) pair, repeated ids in the lists
\* notwithstanding; create_paper with tag_ids = [1, 1, 2] leaves exactly two
\* tag rows, for the tags 1 and 2.
C21_NoDuplicatePairs ==
    /\ no_duplicate_pairs(db)
    /\ called("create_paper") /\ acceptable(before, request.paper)
            /\ request.paper.tag_ids = ListV(<<1, 1, 2>>)
        => /\ returned_paper
           /\ count_rows(db.paper_tags, response.returned.id) = 2
           /\ tag_ids_of(db, response.returned.id) = {1, 2}

\* where an id first occurs in a list
RECURSIVE first_index(_, _, _)
first_index(ids, x, i) ==
    IF i > Len(ids) THEN 0 ELSE IF ids[i] = x THEN i ELSE first_index(ids, x, i + 1)
\* the author rows of paper id are one row for each author of the list,
\* numbered 1..k in the order in which the authors first occur in the list
authors_as_listed(d, id, ids) ==
    LET rows == rows_of(d.paper_authors, id)
        k == count_rows(d.paper_authors, id)
    IN  /\ {r.author_id : r \in rows} = Range(ids)
        /\ k = Cardinality(Range(ids))
        /\ {r.author_order : r \in rows} = 1..k
        /\ \A r1, r2 \in rows :
            r1.author_order < r2.author_order
                <=> first_index(ids, r1.author_id, 1) < first_index(ids, r2.author_id, 1)
\* a call of update_paper on a paper that exists
updates_existing == called("update_paper") /\ request.paper_id \in PaperIds(before)

\* C22: after create_paper or update_paper with author_ids = L the paper's
\* author rows are exactly the authors of L, numbered 1..k in the order of
\* first occurrence in L; update_paper without author_ids leaves the author
\* rows as they were.
C22_AuthorsReplacedInListOrder ==
    /\ called("create_paper") /\ acceptable(before, request.paper)
        => /\ returned_paper
           /\ authors_as_listed(db, response.returned.id, request.paper.author_ids.v)
    /\ updates_existing /\ request.paper.v.author_ids # NULL
            /\ Range(request.paper.v.author_ids.v) \subseteq DOMAIN before.authors
        => authors_as_listed(db, request.paper_id, request.paper.v.author_ids.v)
    /\ updates_existing /\ request.paper.v.author_ids = NULL
        => db.paper_authors = before.paper_authors

\* the papers the call made last added to the store
new_papers == PaperIds(db) \ PaperIds(before)
author_ids_of(d, id) == {r.author_id : r \in rows_of(d.paper_authors, id)}
\* the call made last named an author or a tag that does not exist
names_missing_id ==
    \/ ~(Range(request.paper.author_ids.v) \subseteq DOMAIN before.authors)
    \/ ~(Range(request.paper.tag_ids.v) \subseteq DOMAIN before.tags)

imported_rows ==
    /\ called("import_file") \/ called("import_file_with_config")
    /\ request.file # None
    /\ parses(request.file)
\* the fields mapped from row i of the file imported last
mapped(i) == map_excel_row_to_paper(request.file.rows[i], before).paper_data
\* row i has a title and a year, and neither its DOI nor its title is that
\* of a stored paper or of an earlier row
creatable(i) ==
    /\ mapped(i) # None
    /\ \A p \in PaperIds(before) :
        /\ before.papers[p].title # mapped(i).title
        /\ mapped(i).doi # NULL => before.papers[p].doi # mapped(i).doi
    /\ \A h \in 1..(i - 1) :
        mapped(h) # None =>
            /\ mapped(h).title # mapped(i).title
            /\ mapped(i).doi # NULL => mapped(h).doi # mapped(i).doi
\* rows i and j carry the same DOI
same_doi(i, j) ==
    /\ mapped(i) # None /\ mapped(j) # None
    /\ mapped(i).doi # NULL /\ mapped(i).doi = mapped(j).doi
papers_with_doi(d, doi) == {p \in PaperIds(d) : d.papers[p].doi = doi}
\* the entries of errors are in the order of the rows
in_file_order(errors) ==
    \A a, b \in DOMAIN errors : a < b => errors[a].row <= errors[b].row

\* C24: within one import the rows are handled in file order, and of two
\* rows with the same DOI the first is created and committed while the
\* second is rejected: errors gets the entry "DOI exists" with the second
\* row's number, the row counts as failed and no paper is created for it.
C24_SecondRowWithSameDoiRejected ==
    imported_rows =>
        /\ in_file_order(response.returned.errors)
        /\ \A i, j \in DOMAIN request.file.rows :
            i < j /\ creatable(i) /\ same_doi(i, j)
            => /\ Cardinality(papers_with_doi(db, mapped(i).doi)) = 1
               /\ papers_with_doi(before, mapped(i).doi) = {}
               /\ RowError(j, "DOI exists") \in Range(response.returned.errors)
               /\ response.returned.failed_imports >= 1

(***************************************************************************)
(* Properties of the paper endpoints called one after another (SpecCrud),  *)
(* continued                                                               *)
(***************************************************************************)
\* the DOI of the body posted last is not null and is the DOI of a stored
\* paper
posts_stored_doi ==
    /\ called("create_paper")
    /\ request.paper.doi # NULL
    /\ papers_with_doi(before, request.paper.doi) # {}

\* C25: create_paper with a DOI that is not null and is the DOI of a stored
\* paper is rejected with an error that names the DOI, HTTP 400 at the
\* endpoint, and the papers and association rows stay as they were.
C25_StoredDoiRejected ==
    posts_stored_doi =>
        /\ is_raised(response.returned)
        /\ response.status = 400
        /\ response.detail.doi = request.paper.doi
        /\ db = before

\* an association row names the paper
referenced(d, id) ==
    \/ \E r \in Range(d.paper_authors) : r.paper_id = id
    \/ \E r \in Range(d.paper_tags) : r.paper_id = id

\* C26: delete_paper on a stored paper, one with author and tag rows
\* included, returns True, removes the paper and removes its association
\* rows, so that no row names the deleted id; on an id that is not stored it
\* returns False and changes nothing.
C26_DeleteRemovesPaperAndRows ==
    called("delete_paper") =>
        IF request.paper_id \in PaperIds(before)
        THEN /\ response.returned = Bool(TRUE)
             /\ request.paper_id \notin PaperIds(db)
             /\ ~referenced(db, request.paper_id)
        ELSE /\ response.returned = Bool(FALSE)
             /\ db = before

(***************************************************************************)
(* Properties of the import endpoints (SpecImport), continued              *)
(***************************************************************************)
\* the rows that have an entry in errors
failed_rows(errors) == {errors[e].row : e \in DOMAIN errors}

\* C27: an import of a file that was read handles every row once:
\* successful_imports + failed_imports = total_rows, the number of rows of
\* the file, and len(imported_papers) = successful_imports; a row that fails
\* gets an entry in errors and adds no paper, the rows after it are still
\* handled, and the papers stored before stay as they were.
C27_EveryRowCountedOnce ==
    imported_rows =>
        LET res == response.returned
            n == Len(request.file.rows)
        IN  /\ res.total_rows = n
            /\ res.successful_imports + res.failed_imports = res.total_rows
            /\ Len(res.imported_papers) = res.successful_imports
            /\ failed_rows(res.errors) \subseteq 1..n
            /\ Cardinality(failed_rows(res.errors)) = res.failed_imports
            /\ Len(res.errors) = res.failed_imports
            /\ in_file_order(res.errors)
            /\ Cardinality(PaperIds(db) \ PaperIds(before)) = res.successful_imports
            /\ \A p \in PaperIds(before) : p \in PaperIds(db) /\ db.papers[p] = before.papers[p]
\* a file was imported whose first row fails validation and whose last row
\* fails while the paper is created, after the store already held a paper
C27_Witness ==
    /\ imported_rows
    /\ PaperIds(before) # {}
    /\ Len(request.file.rows) >= 2
    /\ RowError(1, "title is empty") \in Range(response.returned.errors)
    /\ RowError(Len(request.file.rows), "AttributeError") \in Range(response.returned.errors)

(***************************************************************************)
(* Properties of two concurrent update_paper requests (SpecRace)           *)
(***************************************************************************)
both_committed == \A t \in Requests : tx[t].at = "done"

\* C28: when two concurrent update_paper requests that set tag_ids, or
\* author_ids, of the same paper have both committed, no two association
\* rows share a (paper, tag) pair or a (paper, author) pair.
C28_NoDuplicatePairsAfterBothCommit == both_committed => no_duplicate_pairs(db)

\* a finished import_file_with_config call went through the rows of its file
processed_rows(c) == c.returned # failed_as_a_whole
\* a finished call failed as a whole: no rows, no papers, one entry in errors
nothing_imported(c) ==
    /\ c.returned.total_rows = 0
    /\ c.returned.imported_papers = <<>>
    /\ Len(c.returned.errors) = 1
    /\ c.added = {}

\* C29: preview_file registers the file under a fresh id;
\* import_file_with_config with a registered id goes through the rows and
\* removes the id, so that a later import with that id, like one with an id
\* never registered, creates no paper and returns total_rows = 0, no
\* imported papers and one error; an id serves at most one import that goes
\* through rows, and an import that fails as a whole leaves the registry as
\* it was.
C29_FileIdConsumedOnce ==
    /\ DOMAIN TEMP_FILES \subseteq 1..uuids
    /\ called("preview_file") /\ ~is_raised(response.returned)
        => /\ response.returned.file_id = uuids
           /\ TEMP_FILES[uuids] = request.file
    /\ \A k \in DOMAIN imports :
        LET c == imports[k]
        IN  IF c.preview_file_id \in c.registered
            THEN /\ processed_rows(c)
                 /\ c.left = c.registered \ {c.preview_file_id}
            ELSE /\ nothing_imported(c)
                 /\ c.left = c.registered
    /\ \A j, k \in DOMAIN imports :
        /\ j < k /\ imports[j].preview_file_id = imports[k].preview_file_id
        /\ processed_rows(imports[j])
        => ~processed_rows(imports[k]) /\ nothing_imported(imports[k])
\* a previewed file with rows was imported, and the same id was then used
\* for a second import
C29_Witness ==
    /\ Len(imports) = 2
    /\ imports[1].preview_file_id = imports[2].preview_file_id
    /\ processed_rows(imports[1]) /\ imports[1].returned.total_rows >= 2
    /\ nothing_imported(imports[2])

(***************************************************************************)
(* Properties of build_single_condition (SpecCond), continued              *)
(***************************************************************************)
LowerBoundFields == {"year_from", "min_citations"}
UpperBoundFields == {"year_to", "max_citations"}
\* the condition with another operator
with_operator(c, operator) == [c EXCEPT !.operator = operator]
\* what was returned is a comparison, not None and not an exception
is_comparison(p) == p.k \in {"ge", "le", "eq"}
\* a row whose year and citation count are n
RowWithNumber(n) ==
    [title |-> StrV(<<>>), abstract |-> NULL, publication_year |-> IntV(n),
     citation_count |-> IntV(n), venue_id |-> NULL, author_name |-> NULL, tag_name |-> NULL]

\* C30: for year_from and min_citations greater_than gives the predicate of
\* greater_equal, attribute >= value, which a row whose attribute equals the
\* value satisfies; for year_to and max_citations less_than gives the
\* predicate of less_equal, attribute <= value.
C30_StrictOperatorsAreInclusive ==
    pc = "done" =>
        /\ condition.field \in LowerBoundFields /\ condition.operator = "greater_than"
            => /\ db_condition = build_single_condition(with_operator(condition, "greater_equal"))
               /\ is_comparison(db_condition)
                    => /\ db_condition.k = "ge"
                       /\ eval(db_condition, RowWithNumber(db_condition.arg.v)) = "T"
        /\ condition.field \in UpperBoundFields /\ condition.operator = "less_than"
            => /\ db_condition = build_single_condition(with_operator(condition, "less_equal"))
               /\ is_comparison(db_condition)
                    => /\ db_condition.k = "le"
                       /\ eval(db_condition, RowWithNumber(db_condition.arg.v)) = "T"
\* greater_than on year_from with a value that is an integer gave a
\* comparison
C30_Witness ==
    /\ pc = "done"
    /\ condition.field = "year_from" /\ condition.operator = "greater_than"
    /\ is_comparison(db_condition)
    /\ db_condition.col = "Paper.publication_year"

====
